---- MODULE Spec2Model ----
(***************************************************************************)
(* TeleScout: the match-and-forward pipeline of src/src/telegram_client.py *)
(* with its rate limiter (src/src/rate_limiter.py) and keyword matcher     *)
(* (src/src/keyword_matcher.py).                                           *)
(*                                                                         *)
(* Time is the wall clock in whole seconds.  Every await of the code is a  *)
(* suspension point: a call of _process_message is split at the await of   *)
(* _forward_message (the platform I/O) and at the flood-wait sleep, and    *)
(* other handler tasks may run in between.                                 *)
(*                                                                         *)
(* main() of src/main.py runs the phases on one client: start() with the   *)
(* resolution of the channels, the historical scan, live monitoring and    *)
(* stop(); a signal may arrive wherever the main task stands.              *)
(***************************************************************************)
EXTENDS Integers, Sequences, FiniteSets, Bags, TLC

VARIABLES
    now,                 \* the wall clock: time.time() / datetime.now(timezone.utc)
    global_messages,     \* RateLimiter.global_messages: deque of timestamps
    channel_messages,    \* RateLimiter.channel_messages: channel_id -> deque
    last_forward_time,   \* TeleScoutClient._last_forward_time: channel_id -> time
    forwarded_messages,  \* TeleScoutClient._forwarded_messages: set of (channel_id, id)
    pc,                  \* per handler task: where its _process_message call stands
    call,                \* per handler task: the locals of its call
    returned,            \* per handler task: what its last finished call returned
    callbacks,           \* number of on_message_forwarded() invocations
    sends,               \* history: the successful sends of the trailing hour
    tracked,             \* whether this session keeps the call log below
    log,                 \* history: every finished _process_message call
    fwd,                 \* _forward_message alone: its inputs and the text it sends
    applied,             \* a pure function applied alone: its inputs and its result
    args,                \* main(): the parsed command line flags
    time_window_hours,   \* Config.time_window_hours (None: no historical scan)
    mpc,                 \* main(): where the main task stands
    resolve_i,           \* _resolve_channels: index of the identifier being resolved
    monitored_channels,  \* TeleScoutClient.monitored_channels: resolved entities
    scan,                \* scan_historical_messages: cutoff_time and loop position
    hist_trace,          \* history: the messages the scan passed to _process_message
    flow,                \* history: which phases main() entered, and how it left
    signal_received,     \* the signal delivered to signal_handler, if any
    gui                  \* TeleScoutGUI: monitoring_status, client and its threads

pipeVars == <<global_messages, channel_messages, last_forward_time, forwarded_messages>>
histVars == <<sends, tracked, log>>
taskVars == <<pc, call, returned>>
vars == <<now, global_messages, channel_messages, last_forward_time,
          forwarded_messages, pc, call, returned, callbacks, sends, tracked, log, fwd, applied, gui,
          args, time_window_hours, mpc, resolve_i, monitored_channels, scan,
          hist_trace, flow, signal_received>>
mainVars == <<args, time_window_hours, mpc, resolve_i, monitored_channels, scan,
              hist_trace, flow, signal_received>>

----------------------------------------------------------------------------
(* Configuration (src/src/config.py, class Config) and model bounds.       *)

forward_delay == 5
max_messages_per_hour == 3
max_messages_per_channel_per_hour == 2
max_tracked_messages == 2
keywords == <<"deploy", "bot">>

HourSeconds == 3600
None == 0

MaxForwards == 3
MaxCalls == 4
TaskOrder == <<"h1", "h2">>
Tasks == {TaskOrder[i] : i \in 1..Len(TaskOrder)}
Instants == {0, 5, 3605}
SessionInstants == {0, 5}
FloodSeconds == {2}

----------------------------------------------------------------------------
(* Strings.  A text is a TLA+ string; Char(s, i) is its i-th character as  *)
(* a one-character string.  Case folding covers the ASCII letters.         *)

Char(s, i) == SubSeq(s, i, i)

UpperAlphabet == "ABCDEFGHIJKLMNOPQRSTUVWXYZ"
LowerAlphabet == "abcdefghijklmnopqrstuvwxyz"
Digits == "0123456789"
WordAlphabet == UpperAlphabet \o LowerAlphabet \o Digits \o "_"
WordChars == {Char(WordAlphabet, i) : i \in 1..Len(WordAlphabet)}
Whitespace == {" ", "\t", "\n", "\r"}

\* str.lower() on one character
LowerChar(c) ==
    IF \E i \in 1..Len(UpperAlphabet) : Char(UpperAlphabet, i) = c
    THEN Char(LowerAlphabet, CHOOSE i \in 1..Len(UpperAlphabet) : Char(UpperAlphabet, i) = c)
    ELSE c

RECURSIVE lower(_)
lower(s) == IF s = "" THEN "" ELSE LowerChar(Char(s, 1)) \o lower(Tail(s))

RECURSIVE lstrip(_)
lstrip(s) == IF s # "" /\ Char(s, 1) \in Whitespace THEN lstrip(Tail(s)) ELSE s

RECURSIVE rstrip(_)
rstrip(s) ==
    IF s # "" /\ Char(s, Len(s)) \in Whitespace
    THEN rstrip(SubSeq(s, 1, Len(s) - 1))
    ELSE s

strip(s) == rstrip(lstrip(s))

----------------------------------------------------------------------------
(* KeywordMatcher (src/src/keyword_matcher.py)                             *)

\* an __init__ that keeps the surrounding whitespace of the keywords
KeywordMatcher_unstripped(kws) == [i \in 1..Len(kws) |-> lower(kws[i])]

\* __init__: self.keywords = [kw.lower().strip() for kw in keywords]
KeywordMatcher(kws) == [i \in 1..Len(kws) |-> strip(lower(kws[i]))]

\* the matcher of the client, built from the configured keywords
matcher_keywords == KeywordMatcher(keywords)

\* regex \b at offset k of text (between character k and character k+1):
\* exactly one side is a word character; outside the text counts as non-word
WordBoundary(text, k) ==
    LET left == k >= 1 /\ Char(text, k) \in WordChars
        right == k < Len(text) /\ Char(text, k + 1) \in WordChars
    IN left # right

\* a search for the keyword anywhere in the text, inside words too
pattern_search_substring(keyword, text) ==
    \E k \in 0..(Len(text) - Len(keyword)) :
        \A j \in 1..Len(keyword) : LowerChar(Char(text, k + j)) = LowerChar(Char(keyword, j))

\* pattern.search(text) for re.compile(rf'\b{escaped}\b', re.IGNORECASE)
pattern_search(keyword, text) ==
    \E k \in 0..(Len(text) - Len(keyword)) :
        /\ WordBoundary(text, k)
        /\ \A j \in 1..Len(keyword) : LowerChar(Char(text, k + j)) = LowerChar(Char(keyword, j))
        /\ WordBoundary(text, k + Len(keyword))

\* find_matches of a matcher whose self.keywords is self_keywords: the
\* matching keywords, in configured order
find_matches_in(self_keywords, text) ==
    IF text = "" THEN <<>>
    ELSE SelectSeq(self_keywords, LAMBDA kw : pattern_search(kw, text))

\* has_match: the first pattern that matches decides
has_match_in(self_keywords, text) ==
    IF text = "" THEN FALSE
    ELSE \E i \in 1..Len(self_keywords) : pattern_search(self_keywords[i], text)

\* ', '.join(f"'{m}'" for m in matches[:3])
RECURSIVE join_quoted(_)
join_quoted(ms) ==
    IF ms = <<>> THEN ""
    ELSE IF Len(ms) = 1 THEN "'" \o ms[1] \o "'"
    ELSE "'" \o ms[1] \o "', " \o join_quoted(Tail(ms))

\* None, as the f-string of the header renders it
NoSummary == "None"

\* a summary that shows three keywords and never counts the rest
get_match_summary_without_count(self_keywords, text) ==
    LET matches == find_matches_in(self_keywords, text)
    IN IF matches = <<>> THEN NoSummary
       ELSE IF Len(matches) = 1 THEN "Keyword matched: '" \o matches[1] \o "'"
       ELSE "Keywords matched: "
            \o join_quoted(SubSeq(matches, 1, IF Len(matches) < 3 THEN Len(matches) ELSE 3))

\* get_match_summary: None when nothing matches
get_match_summary_in(self_keywords, text) ==
    LET matches == find_matches_in(self_keywords, text)
    IN IF matches = <<>> THEN NoSummary
       ELSE IF Len(matches) = 1 THEN "Keyword matched: '" \o matches[1] \o "'"
       ELSE LET shown == SubSeq(matches, 1, IF Len(matches) < 3 THEN Len(matches) ELSE 3)
                extra_count == IF Len(matches) > 3
                               THEN " (+" \o ToString(Len(matches) - 3) \o " more)"
                               ELSE ""
            IN "Keywords matched: " \o join_quoted(shown) \o extra_count

\* the three methods on the matcher of the client
find_matches(text) == find_matches_in(matcher_keywords, text)
has_match(text) == has_match_in(matcher_keywords, text)
get_match_summary(text) == get_match_summary_in(matcher_keywords, text)

----------------------------------------------------------------------------
(* RateLimiter (src/src/rate_limiter.py)                                   *)

\* a cleanup that also drops every timestamp that is exactly an hour old
cleanup_old_messages_through_the_hour(message_queue, current_time) ==
    SelectSeq(message_queue, LAMBDA t : t > current_time - HourSeconds)

\* _cleanup_old_messages: pop from the front while the front is older than an hour
RECURSIVE cleanup_old_messages(_, _)
cleanup_old_messages(message_queue, current_time) ==
    IF message_queue # <<>> /\ Head(message_queue) < current_time - HourSeconds
    THEN cleanup_old_messages(Tail(message_queue), current_time)
    ELSE message_queue

\* defaultdict(deque): reading channel_messages[channel_id]
channel_queue_of(cm, channel_id) ==
    IF channel_id \in DOMAIN cm THEN cm[channel_id] ELSE <<>>

\* writing channel_messages[channel_id]
with_channel_queue(cm, channel_id, q) ==
    [c \in DOMAIN cm \cup {channel_id} |-> IF c = channel_id THEN q ELSE cm[c]]

\* can_send_message with the caps compared by > instead of >=
can_send_message_above_cap(gm, cm, channel_id, current_time) ==
    LET g1 == cleanup_old_messages(gm, current_time)
    IN IF Len(g1) > max_messages_per_hour
       THEN [ok |-> FALSE, global_messages |-> g1, channel_messages |-> cm]
       ELSE IF channel_id # None
       THEN LET c1 == cleanup_old_messages(channel_queue_of(cm, channel_id), current_time)
                cm1 == with_channel_queue(cm, channel_id, c1)
            IN IF Len(c1) > max_messages_per_channel_per_hour
               THEN [ok |-> FALSE, global_messages |-> g1, channel_messages |-> cm1]
               ELSE [ok |-> TRUE, global_messages |-> g1, channel_messages |-> cm1]
       ELSE [ok |-> TRUE, global_messages |-> g1, channel_messages |-> cm]

\* can_send_message: the decision and the state it leaves (it prunes the
\* windows it looks at, and reading the defaultdict creates the channel's queue)
can_send_message(gm, cm, channel_id, current_time) ==
    LET g1 == cleanup_old_messages(gm, current_time)
    IN IF Len(g1) >= max_messages_per_hour
       THEN [ok |-> FALSE, global_messages |-> g1, channel_messages |-> cm]
       ELSE IF channel_id # None
       THEN LET c1 == cleanup_old_messages(channel_queue_of(cm, channel_id), current_time)
                cm1 == with_channel_queue(cm, channel_id, c1)
            IN IF Len(c1) >= max_messages_per_channel_per_hour
               THEN [ok |-> FALSE, global_messages |-> g1, channel_messages |-> cm1]
               ELSE [ok |-> TRUE, global_messages |-> g1, channel_messages |-> cm1]
       ELSE [ok |-> TRUE, global_messages |-> g1, channel_messages |-> cm]

\* a record_message that puts the timestamp at the front of the windows
record_message_at_the_front(gm, cm, channel_id, current_time) ==
    [global_messages |-> <<current_time>> \o gm,
     channel_messages |->
        IF channel_id # None
        THEN with_channel_queue(cm, channel_id,
                                <<current_time>> \o channel_queue_of(cm, channel_id))
        ELSE cm]

\* record_message: append the current time to the global window and, for a
\* channel id, to the channel's window
record_message(gm, cm, channel_id, current_time) ==
    [global_messages |-> Append(gm, current_time),
     channel_messages |->
        IF channel_id # None
        THEN with_channel_queue(cm, channel_id,
                                Append(channel_queue_of(cm, channel_id), current_time))
        ELSE cm]

----------------------------------------------------------------------------
(* Messages delivered by the platform (telethon Message): peer_id, id and  *)
(* text.  A channel peer carries channel_id; a basic-group peer does not.  *)

MatchText == "We deploy at noon."
NoMatchText == "robot"

Matching ==
    {[peer_id |-> [channel_id |-> 41], id |-> 1000, text |-> MatchText],
     [peer_id |-> [channel_id |-> 41], id |-> 1001, text |-> MatchText],
     [peer_id |-> [channel_id |-> 42], id |-> 1000, text |-> MatchText],
     [peer_id |-> [chat_id |-> 7], id |-> 1000, text |-> MatchText]}

Messages ==
    Matching
    \cup {[peer_id |-> [channel_id |-> 41], id |-> 1002, text |-> NoMatchText],
          [peer_id |-> [channel_id |-> 42], id |-> 1002, text |-> ""]}

\* the messages of a tracked session: four sources, three messages of one
SessionMessages ==
    {[peer_id |-> [channel_id |-> c], id |-> 1000, text |-> MatchText] : c \in {41, 42, 43}}
    \cup {[peer_id |-> [chat_id |-> 7], id |-> 1000, text |-> MatchText]}
    \cup {[peer_id |-> [channel_id |-> 41], id |-> i, text |-> MatchText] : i \in {1001, 1002}}

\* keyword_matcher.has_match(message.text), tabulated over the texts in use
text_has_match ==
    [text \in {m.text : m \in Messages \cup SessionMessages} |-> has_match(text)]

\* message.peer_id.channel_id if hasattr(message.peer_id, 'channel_id') else None
channel_id_of(message) ==
    IF "channel_id" \in DOMAIN message.peer_id THEN message.peer_id.channel_id ELSE None

\* dedup_id = (channel_id, message.id)
dedup_id_of(message) == <<channel_id_of(message), message.id>>

NoCall == [message |-> [peer_id |-> [chat_id |-> 0], id |-> 0, text |-> ""],
           current_time |-> 0, slept_from |-> 0, seconds |-> 0]
NoFwd == [stage |-> "none"]
NoApplied == [fn |-> "none"]

InFlight == {p \in Tasks : pc[p] # "idle"}

\* handler tasks are interchangeable: a new call runs in the first free one
FirstFree(p) ==
    \E i \in 1..Len(TaskOrder) :
        /\ TaskOrder[i] = p
        /\ pc[p] = "idle"
        /\ \A j \in 1..(i - 1) : pc[TaskOrder[j]] # "idle"

\* the call log of a tracked session: a bag of finished calls
Finished(message, result) ==
    IF tracked THEN log (+) SetToBag({[message |-> message, result |-> result]}) ELSE log

\* the successful sends that lie within the hour before time t
RecentSends(b, t) == [e \in {x \in DOMAIN b : x.at >= t - HourSeconds} |-> b[e]]

----------------------------------------------------------------------------
(* TeleScoutClient._process_message, split at its suspension points.       *)

\* the gates without the dedup gate
gate_of_without_dedup(message) ==
    LET channel_id == channel_id_of(message)
        rl == can_send_message(global_messages, channel_messages, channel_id, now)
    IN IF message.text = "" THEN "no_text"
       ELSE IF ~text_has_match[message.text] THEN "no_match"
       ELSE IF ~rl.ok THEN "rate_limited"
       ELSE IF /\ channel_id \in DOMAIN last_forward_time
               /\ now - last_forward_time[channel_id] < forward_delay
            THEN "spacing"
       ELSE "forward"

\* lines 182-215: the gates, evaluated without suspension.  The outcome is
\* the gate that rejects, or "forward" when the call goes on to the send.
gate_of(message) ==
    LET channel_id == channel_id_of(message)
        rl == can_send_message(global_messages, channel_messages, channel_id, now)
    IN IF message.text = "" THEN "no_text"
       ELSE IF ~text_has_match[message.text] THEN "no_match"
       ELSE IF dedup_id_of(message) \in forwarded_messages THEN "duplicate"
       ELSE IF ~rl.ok THEN "rate_limited"
       ELSE IF /\ channel_id \in DOMAIN last_forward_time
               /\ now - last_forward_time[channel_id] < forward_delay
            THEN "spacing"
       ELSE "forward"

\* a call that remembers the key of a message it rejects at the rate limiter
\* or at the spacing gate
Deliver_remembering_rejected(p, message) ==
    LET channel_id == channel_id_of(message)
        gate == gate_of(message)
        rl == can_send_message(global_messages, channel_messages, channel_id, now)
        reached_limiter == gate \in {"rate_limited", "spacing", "forward"}
    IN /\ FirstFree(p)
       /\ IF tracked
          THEN BagCardinality(log) + Cardinality(InFlight) < MaxCalls
          ELSE gate = "forward" => callbacks + Cardinality(InFlight) < MaxForwards
       /\ global_messages' = IF reached_limiter THEN rl.global_messages ELSE global_messages
       /\ channel_messages' = IF reached_limiter THEN rl.channel_messages ELSE channel_messages
       /\ forwarded_messages' = IF gate \in {"rate_limited", "spacing"}
                                THEN forwarded_messages \cup {dedup_id_of(message)}
                                ELSE forwarded_messages
       /\ IF gate = "forward"
          THEN /\ pc' = [pc EXCEPT ![p] = "sending"]
               /\ call' = [call EXCEPT ![p] = [message |-> message, current_time |-> now,
                                               slept_from |-> 0, seconds |-> 0]]
               /\ returned' = [returned EXCEPT ![p] = "pending"]
               /\ log' = log
          ELSE /\ returned' = [returned EXCEPT ![p] = "False"]
               /\ log' = Finished(message, gate)
               /\ UNCHANGED <<pc, call>>
       /\ UNCHANGED <<now, last_forward_time, callbacks, sends, tracked, fwd, applied, gui>>

\* A handler task calls _process_message(message): it runs up to the first
\* return or up to the await of _forward_message.
Deliver(p, message) ==
    LET channel_id == channel_id_of(message)
        gate == gate_of(message)
        rl == can_send_message(global_messages, channel_messages, channel_id, now)
        reached_limiter == gate \in {"rate_limited", "spacing", "forward"}
    IN /\ FirstFree(p)
       /\ IF tracked
          THEN BagCardinality(log) + Cardinality(InFlight) < MaxCalls
          ELSE gate = "forward" => callbacks + Cardinality(InFlight) < MaxForwards
       /\ global_messages' = IF reached_limiter THEN rl.global_messages ELSE global_messages
       /\ channel_messages' = IF reached_limiter THEN rl.channel_messages ELSE channel_messages
       /\ IF gate = "forward"
          THEN /\ pc' = [pc EXCEPT ![p] = "sending"]
               /\ call' = [call EXCEPT ![p] = [message |-> message, current_time |-> now,
                                               slept_from |-> 0, seconds |-> 0]]
               /\ returned' = [returned EXCEPT ![p] = "pending"]
               /\ log' = log
          ELSE /\ returned' = [returned EXCEPT ![p] = "False"]
               /\ log' = Finished(message, gate)
               /\ UNCHANGED <<pc, call>>
       /\ UNCHANGED <<now, last_forward_time, forwarded_messages, callbacks, sends,
                      tracked, fwd, applied, gui>>

\* list(self._forwarded_messages)[-self._max_tracked_messages//2:] keeps
\* this many keys
kept_after_compaction == 0 - ((0 - max_tracked_messages) \div 2)

\* remembering the key without ever compacting the set
remembered_without_compaction(fm, dedup_id) == {fm \cup {dedup_id}}

\* lines 222-229: remember the key; above capacity, keep a tail of the set's
\* iteration order, which for a Python set is unrelated to insertion order
remembered(fm, dedup_id) ==
    LET fm1 == fm \cup {dedup_id}
    IN IF Cardinality(fm1) > max_tracked_messages
       THEN {S \in SUBSET fm1 : Cardinality(S) = kept_after_compaction}
       ELSE {fm1}

\* lines 218-238: the send succeeded
SendOk(p) ==
    LET message == call[p].message
        channel_id == channel_id_of(message)
        rec == record_message(global_messages, channel_messages, channel_id, now)
    IN /\ pc[p] = "sending"
       /\ last_forward_time' =
            [c \in DOMAIN last_forward_time \cup {channel_id} |->
                IF c = channel_id THEN call[p].current_time ELSE last_forward_time[c]]
       /\ forwarded_messages' \in remembered(forwarded_messages, dedup_id_of(message))
       /\ global_messages' = rec.global_messages
       /\ channel_messages' = rec.channel_messages
       /\ callbacks' = callbacks + 1
       /\ sends' = sends (+) SetToBag({[peer_id |-> message.peer_id, at |-> now]})
       /\ log' = Finished(message, "sent")
       /\ pc' = [pc EXCEPT ![p] = "idle"]
       /\ call' = [call EXCEPT ![p] = NoCall]
       /\ returned' = [returned EXCEPT ![p] = "True"]
       /\ UNCHANGED <<now, tracked, fwd, applied, gui>>

\* line 239-241: the send raised FloodWaitError(seconds); the call sleeps
SendFlood(p, seconds) ==
    /\ pc[p] = "sending"
    /\ pc' = [pc EXCEPT ![p] = "flood_sleep"]
    /\ call' = [call EXCEPT ![p].slept_from = now, ![p].seconds = seconds]
    /\ UNCHANGED <<now, pipeVars, returned, callbacks, histVars, fwd, applied, gui>>

\* a call that attempts the send again when its flood-wait sleep is over
FloodWake_retrying(p) ==
    /\ pc[p] = "flood_sleep"
    /\ now >= call[p].slept_from + call[p].seconds
    /\ pc' = [pc EXCEPT ![p] = "sending"]
    /\ UNCHANGED <<now, pipeVars, call, returned, callbacks, histVars, fwd, applied, gui>>

\* the flood-wait return that counts the failed send in the rate limiter
FloodWake_recording(p) ==
    LET rec == record_message(global_messages, channel_messages,
                              channel_id_of(call[p].message), now)
    IN /\ pc[p] = "flood_sleep"
       /\ now >= call[p].slept_from + call[p].seconds
       /\ global_messages' = rec.global_messages
       /\ channel_messages' = rec.channel_messages
       /\ log' = Finished(call[p].message, "flood_wait")
       /\ pc' = [pc EXCEPT ![p] = "idle"]
       /\ call' = [call EXCEPT ![p] = NoCall]
       /\ returned' = [returned EXCEPT ![p] = "False"]
       /\ UNCHANGED <<now, last_forward_time, forwarded_messages, callbacks, sends,
                      tracked, fwd, applied, gui>>

\* line 242: the flood-wait sleep is over; return False
FloodWake(p) ==
    /\ pc[p] = "flood_sleep"
    /\ now >= call[p].slept_from + call[p].seconds
    /\ log' = Finished(call[p].message, "flood_wait")
    /\ pc' = [pc EXCEPT ![p] = "idle"]
    /\ call' = [call EXCEPT ![p] = NoCall]
    /\ returned' = [returned EXCEPT ![p] = "False"]
    /\ UNCHANGED <<now, pipeVars, callbacks, sends, tracked, fwd, applied, gui>>

\* a send error that is counted in the rate limiter
SendError_recording(p) ==
    LET rec == record_message(global_messages, channel_messages,
                              channel_id_of(call[p].message), now)
    IN /\ pc[p] = "sending"
       /\ global_messages' = rec.global_messages
       /\ channel_messages' = rec.channel_messages
       /\ log' = Finished(call[p].message, "error")
       /\ pc' = [pc EXCEPT ![p] = "idle"]
       /\ call' = [call EXCEPT ![p] = NoCall]
       /\ returned' = [returned EXCEPT ![p] = "False"]
       /\ UNCHANGED <<now, last_forward_time, forwarded_messages, callbacks, sends,
                      tracked, fwd, applied, gui>>

\* lines 243-245: the send raised another error; return False
SendError(p) ==
    /\ pc[p] = "sending"
    /\ log' = Finished(call[p].message, "error")
    /\ pc' = [pc EXCEPT ![p] = "idle"]
    /\ call' = [call EXCEPT ![p] = NoCall]
    /\ returned' = [returned EXCEPT ![p] = "False"]
    /\ UNCHANGED <<now, pipeVars, callbacks, sends, tracked, fwd, applied, gui>>

\* the wall clock advances
Tick(t) ==
    /\ t > now
    /\ now' = t
    /\ sends' = RecentSends(sends, t)
    /\ UNCHANGED <<pipeVars, taskVars, callbacks, tracked, log, fwd, applied, gui>>

InitPipeline ==
    /\ now = 0
    /\ global_messages = <<>>
    /\ channel_messages = <<>>
    /\ last_forward_time = <<>>
    /\ forwarded_messages = {}
    /\ pc = [p \in Tasks |-> "idle"]
    /\ call = [p \in Tasks |-> NoCall]
    /\ returned = [p \in Tasks |-> "pending"]
    /\ callbacks = 0
    /\ sends = EmptyBag
    /\ log = EmptyBag

\* TeleScoutGUI.__init__ (gui.py lines 26-31): no session, no client; threads
\* lists the session threads created so far, stop_threads counts the threads
\* of stop_client that have not run yet, response is the last HTTP status
NoGui == [monitoring_status |-> "stopped", client |-> None, threads |-> <<>>,
          stop_threads |-> 0, response |-> 0]

NoScan == [cutoff_time |-> 0, channel |-> 0, cursor |-> 0, slept_from |-> 0,
           channel_processed |-> 0, channel_matched |-> 0,
           total_processed |-> 0, total_matched |-> 0]
NoFlow == [resolutions |-> <<>>, scan_called |-> FALSE, live_installed |-> FALSE,
           live_processed |-> FALSE, disconnect_invoked |-> FALSE, cancelled_in |-> "none",
           failed_in |-> "none", exit_code |-> 0]

\* the pipeline taken alone: main() is past client.start() and the handler of
\* start_monitoring is installed
MainLive ==
    /\ args = [no_historical |-> TRUE, scan_only |-> FALSE]
    /\ time_window_hours = None
    /\ mpc = "live"
    /\ resolve_i = 0
    /\ monitored_channels = <<>>
    /\ scan = NoScan
    /\ hist_trace = <<>>
    /\ flow = NoFlow
    /\ signal_received = "none"

\* live monitoring: any number of calls, overlapping at the sends
Init == InitPipeline /\ tracked = FALSE /\ fwd = NoFwd /\ applied = NoApplied /\ gui = NoGui /\ MainLive

Next ==
    \/ \E p \in Tasks, message \in Messages : Deliver(p, message) /\ UNCHANGED mainVars
    \/ \E p \in Tasks : SendOk(p) /\ UNCHANGED mainVars
    \/ \E p \in Tasks, seconds \in FloodSeconds : SendFlood(p, seconds) /\ UNCHANGED mainVars
    \/ \E p \in Tasks : FloodWake(p) /\ UNCHANGED mainVars
    \/ \E p \in Tasks : SendError(p) /\ UNCHANGED mainVars
    \/ \E t \in Instants : Tick(t) /\ UNCHANGED mainVars

Spec == Init /\ [][Next]_vars

\* a short session of at most MaxCalls calls, with its call log
InitSession == InitPipeline /\ tracked = TRUE /\ fwd = NoFwd /\ applied = NoApplied /\ gui = NoGui /\ MainLive

NextSession ==
    \/ \E p \in Tasks, message \in SessionMessages : Deliver(p, message) /\ UNCHANGED mainVars
    \/ \E p \in Tasks : SendOk(p) /\ UNCHANGED mainVars
    \/ \E p \in Tasks, seconds \in FloodSeconds : SendFlood(p, seconds) /\ UNCHANGED mainVars
    \/ \E p \in Tasks : FloodWake(p) /\ UNCHANGED mainVars
    \/ \E p \in Tasks : SendError(p) /\ UNCHANGED mainVars
    \/ \E t \in SessionInstants : Tick(t) /\ UNCHANGED mainVars

SpecSession == InitSession /\ [][NextSession]_vars

\* live monitoring of two basic groups, whose peers carry no channel_id
GroupMessages ==
    {[peer_id |-> [chat_id |-> 7], id |-> i, text |-> MatchText] : i \in {1000, 1001, 1002}}
    \cup {[peer_id |-> [chat_id |-> 8], id |-> 2000, text |-> MatchText]}

GroupInstants == {0, 5, 10}

NextGroups ==
    \/ \E p \in Tasks, message \in GroupMessages : Deliver(p, message) /\ UNCHANGED mainVars
    \/ \E p \in Tasks : SendOk(p) /\ UNCHANGED mainVars
    \/ \E p \in Tasks, seconds \in FloodSeconds : SendFlood(p, seconds) /\ UNCHANGED mainVars
    \/ \E p \in Tasks : FloodWake(p) /\ UNCHANGED mainVars
    \/ \E p \in Tasks : SendError(p) /\ UNCHANGED mainVars
    \/ \E t \in GroupInstants : Tick(t) /\ UNCHANGED mainVars

SpecGroups == Init /\ [][NextGroups]_vars

----------------------------------------------------------------------------
(* format_datetime (src/src/utils.py)                                      *)

MonthNames == <<"January", "February", "March", "April", "May", "June", "July",
                "August", "September", "October", "November", "December">>

\* strftime %I and %M: two digits
two_digits(n) == IF n < 10 THEN "0" \o ToString(n) ELSE ToString(n)

\* an ordinal suffix taken from the last digit alone
day_suffix_of_last_digit(day) ==
    IF day % 10 = 1 THEN "st"
    ELSE IF day % 10 = 2 THEN "nd"
    ELSE IF day % 10 = 3 THEN "rd"
    ELSE "th"

\* the ordinal suffix of the day of the month
day_suffix(day) ==
    IF 10 <= day /\ day <= 13 THEN "th"
    ELSE IF day % 10 = 1 THEN "st"
    ELSE IF day % 10 = 2 THEN "nd"
    ELSE IF day % 10 = 3 THEN "rd"
    ELSE "th"

\* dt.strftime(f"{day}{suffix} %B %Y %I:%M%p")
format_datetime(dt) ==
    ToString(dt.day) \o day_suffix(dt.day) \o " " \o MonthNames[dt.month] \o " "
    \o ToString(dt.year) \o " "
    \o two_digits(IF dt.hour % 12 = 0 THEN 12 ELSE dt.hour % 12) \o ":"
    \o two_digits(dt.minute) \o (IF dt.hour < 12 THEN "AM" ELSE "PM")

----------------------------------------------------------------------------
(* TeleScoutClient._forward_message: the text handed to the platform send. *)
(* Each emoji of the source is one code point; "#" stands for it.          *)

RECURSIVE Repeat(_, _)
Repeat(s, n) ==
    IF n = 0 THEN ""
    ELSE LET half == Repeat(s, n \div 2)
         IN IF n % 2 = 0 THEN half \o half ELSE half \o half \o s

TruncationNotice == "\n\n[Message truncated for security]"
HiddenNotice == "[Message too long, content hidden for security]"
TruncationReserve == 100
RuleWidth == 50

\* lines 259-268
header_of(channel_name, formatted_time, match_summary, is_historical) ==
    "# **TeleScout Match**\n"
    \o "# **Channel:** " \o channel_name \o "\n"
    \o "# **Time:** " \o formatted_time \o "\n"
    \o "# **" \o match_summary \o "**\n"
    \o (IF is_historical THEN "# **Historical message**\n" ELSE "")
    \o Repeat("=", RuleWidth) \o "\n\n"

\* lines 271-277
message_text_of(text, header, max_message_length) ==
    IF Len(text) > max_message_length
    THEN LET truncated_length == max_message_length - Len(header) - TruncationReserve
         IN IF truncated_length > 0
            THEN SubSeq(text, 1, truncated_length) \o TruncationNotice
            ELSE HiddenNotice
    ELSE text

\* the inputs of one _forward_message call
BodyLengths == {18, 200, 201, 301, 500, 4001}
Bodies == {MatchText \o Repeat("x", n - Len(MatchText)) : n \in BodyLengths}
ChannelNames == {"Ops", "Unknown Channel", Repeat("T", 100)}
Dates == {[year |-> 2025, month |-> 8, day |-> 5, hour |-> 17, minute |-> 59],
          [year |-> 2025, month |-> 11, day |-> 22, hour |-> 23, minute |-> 45]}
MaxMessageLengths == {200, 300, 4000}

InitForward ==
    /\ InitPipeline
    /\ tracked = FALSE
    /\ applied = NoApplied /\ gui = NoGui
    /\ MainLive
    /\ \E text \in Bodies, channel_name \in ChannelNames, date \in Dates,
          is_historical \in BOOLEAN, max_message_length \in MaxMessageLengths :
          fwd = [stage |-> "called", text |-> text, channel_name |-> channel_name,
                 date |-> date, is_historical |-> is_historical,
                 max_message_length |-> max_message_length,
                 header |-> "", full_message |-> ""]

\* lines 250-289: compose the header and the body and hand them to send_message
ForwardMessage ==
    LET header == header_of(fwd.channel_name, format_datetime(fwd.date),
                            get_match_summary(fwd.text), fwd.is_historical)
        message_text == message_text_of(fwd.text, header, fwd.max_message_length)
    IN /\ fwd.stage = "called"
       /\ fwd' = [fwd EXCEPT !.stage = "sent", !.header = header,
                             !.full_message = header \o message_text]
       /\ UNCHANGED <<now, pipeVars, taskVars, callbacks, histVars, applied, gui>>

NextForward == ForwardMessage /\ UNCHANGED mainVars

SpecForward == InitForward /\ [][NextForward]_vars

----------------------------------------------------------------------------
(* main() (src/main.py) and the phases it runs on one TeleScoutClient:     *)
(* start() with _resolve_channels, scan_historical_messages,               *)
(* start_monitoring and stop().  The main task runs the scan's calls of    *)
(* _process_message itself, one at a time, in the first task slot.         *)

config_channels == <<"@ops", "@news", "@team">>
WindowHours == {None, 1}
MainInstants == {0, 5, 10}
Signals == {"SIGINT", "SIGTERM"}

\* client.get_entity(channel_identifier) when it succeeds: the entity's id
entity_of(channel_identifier) ==
    CASE channel_identifier = "@ops" -> 41
      [] channel_identifier = "@news" -> 42
      [] OTHER -> 7

\* client.iter_messages(channel, offset_date=cutoff_time, reverse=True): what
\* the platform yields for an entity, oldest first; dates are seconds relative
\* to the start of the run
Yielded(entity) ==
    CASE entity = 41 ->
            <<[message |-> [peer_id |-> [channel_id |-> 41], id |-> 999, text |-> MatchText],
               date |-> -7200],
              [message |-> [peer_id |-> [channel_id |-> 41], id |-> 1000, text |-> MatchText],
               date |-> -3600],
              [message |-> [peer_id |-> [channel_id |-> 41], id |-> 1001, text |-> MatchText],
               date |-> -60]>>
      [] entity = 42 ->
            <<[message |-> [peer_id |-> [channel_id |-> 42], id |-> 1000, text |-> MatchText],
               date |-> -100]>>
      [] OTHER ->
            <<[message |-> [peer_id |-> [chat_id |-> 7], id |-> 1000, text |-> NoMatchText],
               date |-> -30]>>

\* the events of the live phase
LiveMessages ==
    {[peer_id |-> [channel_id |-> 41], id |-> 1001, text |-> MatchText]}

InitMain ==
    /\ InitPipeline
    /\ tracked = FALSE
    /\ fwd = NoFwd
    /\ applied = NoApplied /\ gui = NoGui
    /\ args \in [no_historical : BOOLEAN, scan_only : BOOLEAN]
    /\ time_window_hours \in WindowHours
    /\ mpc = "loading"
    /\ resolve_i = 1
    /\ monitored_channels = <<>>
    /\ scan = NoScan
    /\ hist_trace = <<>>
    /\ flow = NoFlow
    /\ signal_received = "none"

\* the steps of main() and start() before the channels are resolved, in the
\* order of the code
StartSteps == <<"loading", "validating", "authenticating", "target", "resolving">>

\* a failure before or in start(): the exception reaches an except clause of
\* main() that calls sys.exit(1), or main() calls it itself (line 102)
start_failed(step) == [flow EXCEPT !.failed_in = step, !.exit_code = 1]

\* one step of the start: on success main() goes on to the next step
StartStep(i, ok) ==
    /\ mpc = StartSteps[i]
    /\ mpc' = IF ok THEN StartSteps[i + 1] ELSE "failed"
    /\ flow' = IF ok THEN flow ELSE start_failed(StartSteps[i])
    /\ UNCHANGED <<now, pipeVars, taskVars, callbacks, histVars, fwd, applied, gui, args,
                   time_window_hours, resolve_i, monitored_channels, scan, hist_trace,
                   signal_received>>

\* main.py line 89: load_config returns a Config or raises FileNotFoundError
\* or ValueError (lines 126-133), or another error (lines 138-140)
LoadConfig(ok) == StartStep(1, ok)

\* main.py lines 92-102: credential warnings end main() by sys.exit(1)
ValidateCredentials(ok) == StartStep(2, ok)

\* start() lines 47-57: the platform login; its error leaves main() through
\* the clause of lines 138-140
Authenticate(ok) == StartStep(3, ok)

\* a destination lookup whose error is swallowed
GetTarget_continuing(ok) ==
    /\ mpc = "target"
    /\ mpc' = "resolving"
    /\ flow' = IF ok THEN flow ELSE start_failed("target")
    /\ UNCHANGED <<now, pipeVars, taskVars, callbacks, histVars, fwd, applied, gui, args,
                   time_window_hours, resolve_i, monitored_channels, scan, hist_trace,
                   signal_received>>

\* start() lines 60-87: the destination lookup; its error is logged and raised again
GetTarget(ok) == StartStep(4, ok)

\* a resolution loop that gives up at the first identifier that fails
Resolve_stopping_at_error(ok) ==
    /\ mpc = "resolving"
    /\ resolve_i <= Len(config_channels)
    /\ monitored_channels' =
          IF ok THEN Append(monitored_channels, entity_of(config_channels[resolve_i]))
          ELSE monitored_channels
    /\ flow' = [flow EXCEPT !.resolutions = Append(@, ok)]
    /\ resolve_i' = IF ok THEN resolve_i + 1 ELSE Len(config_channels) + 1
    /\ UNCHANGED <<now, pipeVars, taskVars, callbacks, histVars, fwd, applied, gui, args,
                   time_window_hours, mpc, scan, hist_trace, signal_received>>

\* _resolve_channels, one pass of the loop (lines 101-112): the entity is
\* appended, or the error is logged and the loop goes on
Resolve(ok) ==
    /\ mpc = "resolving"
    /\ resolve_i <= Len(config_channels)
    /\ monitored_channels' =
          IF ok THEN Append(monitored_channels, entity_of(config_channels[resolve_i]))
          ELSE monitored_channels
    /\ flow' = [flow EXCEPT !.resolutions = Append(@, ok)]
    /\ resolve_i' = resolve_i + 1
    /\ UNCHANGED <<now, pipeVars, taskVars, callbacks, histVars, fwd, applied, gui, args,
                   time_window_hours, mpc, scan, hist_trace, signal_received>>

\* _resolve_channels, lines 114-115, and the return of start() to main():
\* ValueError ends main() through sys.exit(1) (main.py lines 131-133)
ResolveEnd ==
    /\ mpc = "resolving"
    /\ resolve_i > Len(config_channels)
    /\ mpc' = IF monitored_channels = <<>> THEN "failed" ELSE "started"
    /\ flow' = IF monitored_channels = <<>> THEN start_failed("resolving") ELSE flow
    /\ UNCHANGED <<now, pipeVars, taskVars, callbacks, histVars, fwd, applied, gui, args,
                   time_window_hours, resolve_i, monitored_channels, scan, hist_trace,
                   signal_received>>

\* the historical branch taken on the --scan-only flag
CallScan_on_scan_only ==
    /\ mpc = "started"
    /\ IF args.scan_only
       THEN mpc' = "scanned" /\ UNCHANGED <<scan, flow>>
       ELSE /\ flow' = [flow EXCEPT !.scan_called = TRUE]
            /\ IF time_window_hours = None
               THEN mpc' = "scanned" /\ UNCHANGED scan
               ELSE /\ mpc' = "scan_iter"
                    /\ scan' = [NoScan EXCEPT
                                   !.cutoff_time = now - time_window_hours * HourSeconds,
                                   !.channel = 1]
    /\ UNCHANGED <<now, pipeVars, taskVars, callbacks, histVars, fwd, applied, gui, args,
                   time_window_hours, resolve_i, monitored_channels, hist_trace,
                   signal_received>>

\* a client whose new-message handler is registered when the scan begins
CallScan_installing_live ==
    /\ mpc = "started"
    /\ IF args.no_historical
       THEN mpc' = "scanned" /\ UNCHANGED <<scan, flow>>
       ELSE /\ flow' = [flow EXCEPT !.scan_called = TRUE, !.live_installed = TRUE]
            /\ IF time_window_hours = None
               THEN mpc' = "scanned" /\ UNCHANGED scan
               ELSE /\ mpc' = "scan_iter"
                    /\ scan' = [NoScan EXCEPT
                                   !.cutoff_time = now - time_window_hours * HourSeconds,
                                   !.channel = 1]
    /\ UNCHANGED <<now, pipeVars, taskVars, callbacks, histVars, fwd, applied, gui, args,
                   time_window_hours, resolve_i, monitored_channels, hist_trace,
                   signal_received>>

\* main.py lines 114-115 and scan_historical_messages lines 119-128
CallScan ==
    /\ mpc = "started"
    /\ IF args.no_historical
       THEN mpc' = "scanned" /\ UNCHANGED <<scan, flow>>
       ELSE /\ flow' = [flow EXCEPT !.scan_called = TRUE]
            /\ IF time_window_hours = None
               THEN mpc' = "scanned" /\ UNCHANGED scan
               ELSE /\ mpc' = "scan_iter"
                    /\ scan' = [NoScan EXCEPT
                                   !.cutoff_time = now - time_window_hours * HourSeconds,
                                   !.channel = 1]
    /\ UNCHANGED <<now, pipeVars, taskVars, callbacks, histVars, fwd, applied, gui, args,
                   time_window_hours, resolve_i, monitored_channels, hist_trace,
                   signal_received>>

\* the entity whose messages the scan is iterating
scan_entity == monitored_channels[scan.channel]

\* the iterator taking the newest message first
next_entry_newest_first(entity, cursor) ==
    Yielded(entity)[Len(Yielded(entity)) - cursor]

\* async for message in iter_messages(...): the message after `cursor` taken ones
next_entry(entity, cursor) == Yielded(entity)[cursor + 1]

\* a cutoff test that lets every message through
before_cutoff_never(entry, cutoff_time) == FALSE

\* line 140: message.date < cutoff_time
before_cutoff(entry, cutoff_time) == entry.date < cutoff_time

\* lines 130 and 149-158: the loop over monitored_channels moves on
after_channel(counted) ==
    IF counted.channel = Len(monitored_channels)
    THEN [mpc |-> "scanned", scan |-> counted]
    ELSE [mpc |-> "scan_iter",
          scan |-> [counted EXCEPT !.channel = @ + 1, !.cursor = 0,
                                   !.channel_processed = 0, !.channel_matched = 0]]

\* the iterator of the current channel is exhausted
ScanChannelDone ==
    /\ mpc = "scan_iter"
    /\ scan.cursor = Len(Yielded(scan_entity))
    /\ LET counted == [scan EXCEPT !.total_processed = @ + scan.channel_processed,
                                   !.total_matched = @ + scan.channel_matched]
       IN /\ mpc' = after_channel(counted).mpc
          /\ scan' = after_channel(counted).scan
    /\ UNCHANGED <<now, pipeVars, taskVars, callbacks, histVars, fwd, applied, gui, args,
                   time_window_hours, resolve_i, monitored_channels, hist_trace,
                   flow, signal_received>>

\* a scan that ends at the first channel whose iterator raises
ScanIterError_ending_scan ==
    /\ mpc = "scan_iter"
    /\ scan.cursor < Len(Yielded(scan_entity))
    /\ mpc' = "scanned"
    /\ UNCHANGED <<now, pipeVars, taskVars, callbacks, histVars, fwd, applied, gui, args,
                   time_window_hours, resolve_i, monitored_channels, scan, hist_trace,
                   flow, signal_received>>

\* lines 155-156: the iterator raises; the error is logged and the scan goes
\* on with the next channel
ScanIterError ==
    /\ mpc = "scan_iter"
    /\ scan.cursor < Len(Yielded(scan_entity))
    /\ mpc' = after_channel(scan).mpc
    /\ scan' = after_channel(scan).scan
    /\ UNCHANGED <<now, pipeVars, taskVars, callbacks, histVars, fwd, applied, gui, args,
                   time_window_hours, resolve_i, monitored_channels, hist_trace,
                   flow, signal_received>>

\* lines 140-141: a message older than the cutoff is passed over
ScanSkip ==
    /\ mpc = "scan_iter"
    /\ scan.cursor < Len(Yielded(scan_entity))
    /\ before_cutoff(next_entry(scan_entity, scan.cursor), scan.cutoff_time)
    /\ scan' = [scan EXCEPT !.cursor = @ + 1]
    /\ UNCHANGED <<now, pipeVars, taskVars, callbacks, histVars, fwd, applied, gui, args,
                   time_window_hours, mpc, resolve_i, monitored_channels, hist_trace,
                   flow, signal_received>>

\* lines 143-145: the message is passed to _process_message, which runs up to
\* its first return or to the await of the send
ScanProcess ==
    LET entry == next_entry(scan_entity, scan.cursor)
    IN /\ mpc = "scan_iter"
       /\ scan.cursor < Len(Yielded(scan_entity))
       /\ ~before_cutoff(entry, scan.cutoff_time)
       /\ Deliver(TaskOrder[1], entry.message)
       /\ hist_trace' = Append(hist_trace, [channel |-> scan.channel, entry |-> entry])
       /\ scan' = [scan EXCEPT !.cursor = @ + 1, !.channel_processed = @ + 1]
       /\ mpc' = IF pc'[TaskOrder[1]] = "sending" THEN "scan_process" ELSE "scan_iter"
       /\ UNCHANGED <<args, time_window_hours, resolve_i, monitored_channels, flow,
                      signal_received>>

\* lines 145-147: _process_message returned True, the scan sleeps forward_delay
ScanSendOk ==
    /\ mpc = "scan_process"
    /\ SendOk(TaskOrder[1])
    /\ mpc' = "scan_sleep"
    /\ scan' = [scan EXCEPT !.slept_from = now, !.channel_matched = @ + 1]
    /\ UNCHANGED <<args, time_window_hours, resolve_i, monitored_channels, hist_trace,
                   flow, signal_received>>

\* the send of the scan's call is answered by a flood-wait
ScanSendFlood(seconds) ==
    /\ mpc = "scan_process"
    /\ SendFlood(TaskOrder[1], seconds)
    /\ UNCHANGED mainVars

\* the scan's call returns False after its flood-wait sleep
ScanFloodWake ==
    /\ mpc = "scan_process"
    /\ FloodWake(TaskOrder[1])
    /\ mpc' = "scan_iter"
    /\ UNCHANGED <<args, time_window_hours, resolve_i, monitored_channels, scan,
                   hist_trace, flow, signal_received>>

\* a scan that pauses forward_delay after a failed send too
ScanSendError_sleeping ==
    /\ mpc = "scan_process"
    /\ SendError(TaskOrder[1])
    /\ mpc' = "scan_sleep"
    /\ scan' = [scan EXCEPT !.slept_from = now]
    /\ UNCHANGED <<args, time_window_hours, resolve_i, monitored_channels, hist_trace,
                   flow, signal_received>>

\* the scan's call returns False after a send error
ScanSendError ==
    /\ mpc = "scan_process"
    /\ SendError(TaskOrder[1])
    /\ mpc' = "scan_iter"
    /\ UNCHANGED <<args, time_window_hours, resolve_i, monitored_channels, scan,
                   hist_trace, flow, signal_received>>

\* line 147: asyncio.sleep(forward_delay) is over
ScanSleepDone ==
    /\ mpc = "scan_sleep"
    /\ now >= scan.slept_from + forward_delay
    /\ mpc' = "scan_iter"
    /\ UNCHANGED <<now, pipeVars, taskVars, callbacks, histVars, fwd, applied, gui, args,
                   time_window_hours, resolve_i, monitored_channels, scan, hist_trace,
                   flow, signal_received>>

\* main.py lines 118-121: the live branch
CallLive ==
    /\ mpc = "scanned"
    /\ IF args.scan_only
       THEN mpc' = "finally" /\ UNCHANGED flow
       ELSE mpc' = "live" /\ flow' = [flow EXCEPT !.live_installed = TRUE]
    /\ UNCHANGED <<now, pipeVars, taskVars, callbacks, histVars, fwd, applied, gui, args,
                   time_window_hours, resolve_i, monitored_channels, scan, hist_trace,
                   signal_received>>

\* start_monitoring lines 164-166: an event is handled by a task of its own
LiveDeliver(p, message) ==
    /\ mpc = "live"
    /\ Deliver(p, message)
    /\ flow' = [flow EXCEPT !.live_processed = TRUE]
    /\ UNCHANGED <<args, time_window_hours, mpc, resolve_i, monitored_channels, scan,
                   hist_trace, signal_received>>

\* start_monitoring line 171: run_until_disconnected returns, the connection is gone
LiveDisconnected ==
    /\ mpc = "live"
    /\ mpc' = "finally"
    /\ UNCHANGED <<now, pipeVars, taskVars, callbacks, histVars, fwd, applied, gui, args,
                   time_window_hours, resolve_i, monitored_channels, scan, hist_trace,
                   flow, signal_received>>

\* where the main task stands when a signal arrives
suspended_in ==
    IF mpc = "scan_process"
    THEN (IF pc[TaskOrder[1]] = "sending" THEN "send" ELSE "flood_sleep")
    ELSE mpc

\* an unwinding that passes no finally clause
after_exit_past_finally == "exited"

\* where SystemExit takes the main task: client.start() (main.py line 110)
\* runs outside the try of lines 112-124, everything after it inside
after_exit ==
    IF mpc \in {"loading", "validating", "authenticating", "target", "resolving", "stopping"}
    THEN "exited"
    ELSE "finally"

\* a signal that lets the flood-wait sleeps run on
Signal_sparing_sleeps(sig) ==
    /\ signal_received = "none"
    /\ mpc \notin {"exited", "failed"}
    /\ signal_received' = sig
    /\ flow' = [flow EXCEPT !.cancelled_in = suspended_in, !.exit_code = 0]
    /\ pc' = [p \in Tasks |-> IF pc[p] = "flood_sleep" THEN pc[p] ELSE "idle"]
    /\ call' = [p \in Tasks |-> IF pc[p] = "flood_sleep" THEN call[p] ELSE NoCall]
    /\ returned' = [p \in Tasks |-> IF pc[p] = "sending" THEN "cancelled" ELSE returned[p]]
    /\ mpc' = IF \E p \in Tasks : pc[p] = "flood_sleep" THEN mpc ELSE after_exit
    /\ UNCHANGED <<now, pipeVars, callbacks, histVars, fwd, applied, gui, args, time_window_hours,
                   resolve_i, monitored_channels, scan, hist_trace>>

\* signal_handler (main.py lines 27-30): sys.exit(0) raises SystemExit in the
\* main thread; it leaves the event loop, asyncio.run cancels every task at
\* the await it is suspended in (CancelledError is not an Exception, so no
\* except clause of the client catches it), and the main task unwinds
Signal(sig) ==
    /\ signal_received = "none"
    /\ mpc \notin {"exited", "failed"}
    /\ signal_received' = sig
    /\ flow' = [flow EXCEPT !.cancelled_in = suspended_in, !.exit_code = 0]
    /\ pc' = [p \in Tasks |-> "idle"]
    /\ call' = [p \in Tasks |-> NoCall]
    /\ returned' = [p \in Tasks |-> IF pc[p] # "idle" THEN "cancelled" ELSE returned[p]]
    /\ mpc' = after_exit
    /\ UNCHANGED <<now, pipeVars, callbacks, histVars, fwd, applied, gui, args, time_window_hours,
                   resolve_i, monitored_channels, scan, hist_trace>>

\* leaving the try block without calling stop()
Finally_without_stop ==
    /\ mpc = "finally"
    /\ mpc' = "exited"
    /\ UNCHANGED <<now, pipeVars, taskVars, callbacks, histVars, fwd, applied, gui, args,
                   time_window_hours, resolve_i, monitored_channels, scan, hist_trace,
                   flow, signal_received>>

\* main.py lines 123-124 and stop() lines 296-299: client.disconnect() is invoked
Finally ==
    /\ mpc = "finally"
    /\ mpc' = "stopping"
    /\ flow' = [flow EXCEPT !.disconnect_invoked = TRUE]
    /\ UNCHANGED <<now, pipeVars, taskVars, callbacks, histVars, fwd, applied, gui, args,
                   time_window_hours, resolve_i, monitored_channels, scan, hist_trace,
                   signal_received>>

\* stop() line 299 returns: disconnect() is complete and main() ends
StopDone ==
    /\ mpc = "stopping"
    /\ mpc' = "exited"
    /\ UNCHANGED <<now, pipeVars, taskVars, callbacks, histVars, fwd, applied, gui, args,
                   time_window_hours, resolve_i, monitored_channels, scan, hist_trace,
                   flow, signal_received>>

\* the wall clock advances while main() runs
MainTick(t) ==
    /\ mpc \notin {"exited", "failed"}
    /\ Tick(t)
    /\ UNCHANGED mainVars

NextMain ==
    \/ \E ok \in BOOLEAN : LoadConfig(ok)
    \/ \E ok \in BOOLEAN : ValidateCredentials(ok)
    \/ \E ok \in BOOLEAN : Authenticate(ok)
    \/ \E ok \in BOOLEAN : GetTarget(ok)
    \/ \E ok \in BOOLEAN : Resolve(ok)
    \/ ResolveEnd
    \/ CallScan
    \/ ScanChannelDone
    \/ ScanIterError
    \/ ScanSkip
    \/ ScanProcess
    \/ ScanSendOk
    \/ \E seconds \in FloodSeconds : ScanSendFlood(seconds)
    \/ ScanFloodWake
    \/ ScanSendError
    \/ ScanSleepDone
    \/ CallLive
    \/ \E p \in Tasks, message \in LiveMessages : LiveDeliver(p, message)
    \/ \E p \in Tasks : mpc = "live" /\ SendOk(p) /\ UNCHANGED mainVars
    \/ \E p \in Tasks, seconds \in FloodSeconds :
          mpc = "live" /\ SendFlood(p, seconds) /\ UNCHANGED mainVars
    \/ \E p \in Tasks : mpc = "live" /\ FloodWake(p) /\ UNCHANGED mainVars
    \/ \E p \in Tasks : mpc = "live" /\ SendError(p) /\ UNCHANGED mainVars
    \/ LiveDisconnected
    \/ \E sig \in Signals : Signal(sig)
    \/ Finally
    \/ StopDone
    \/ \E t \in MainInstants : MainTick(t)

\* once the event loop runs, the main task's unwinding and the disconnect go on
SpecMain == InitMain /\ [][NextMain]_vars /\ WF_vars(Finally) /\ WF_vars(StopDone)

----------------------------------------------------------------------------
(* The pure functions taken alone, each applied to inputs drawn from a     *)
(* small set: a KeywordMatcher is built from a list of keywords and its    *)
(* methods are applied to one text; format_datetime formats one date;      *)
(* load_config validates the limits of one configuration file.             *)

KeywordLists ==
    {<<"cat">>, <<"bot">>, <<"\t Cat ">>, <<"c++">>, <<"  ", "cat">>, <<"a", "cat">>,
     <<"a", "cat", "sat">>, <<"a", "cat", "sat", "a cat">>,
     <<"sat", "a", "cat", "dog", "a cat", "CAT">>}
Texts == {"a cat sat", "CAT!", "category", "scatter", "robot", "c++x", "I use c++ now", "!!", ""}
MaxHasMatchCalls == 2

\* the datetimes formatted: every day of a month of 31 days, before and after noon
DateTimes ==
    {[year |-> 2025, month |-> 8, day |-> d, hour |-> h, minute |-> 9] :
        d \in 1..31, h \in {0, 17}}

\* config_data, the parsed YAML file, as far as lines 79-90 read it: each of
\* the three limits is absent or an integer at or around the ends of its range
ConfigDatas ==
    LET allowed == [max_messages_per_hour |-> {-1, 0, 1, 200, 201},
                    max_messages_per_channel_per_hour |-> {-1, 0, 1, 50, 51},
                    max_message_length |-> {-1, 0, 1, 10000, 10001}]
    IN UNION {{f \in [given -> UNION {allowed[k] : k \in given}] :
                  \A k \in given : f[k] \in allowed[k]} : given \in SUBSET DOMAIN allowed}

\* config_data.get(key, default)
config_get(config_data, key, default) ==
    IF key \in DOMAIN config_data THEN config_data[key] ELSE default

\* load_config, lines 79-102: the limits of the Config returned, or the error raised
load_config(config_data) ==
    LET max_per_hour == config_get(config_data, "max_messages_per_hour", 60)
        max_per_channel == config_get(config_data, "max_messages_per_channel_per_hour", 20)
        max_length == config_get(config_data, "max_message_length", 4000)
    IN IF max_per_hour > 200 \/ max_per_channel > 50 \/ max_length > 10000
       THEN [raised |-> "ValueError", config |-> <<>>]
       ELSE [raised |-> "none",
             config |-> [max_messages_per_hour |-> max_per_hour,
                         max_messages_per_channel_per_hour |-> max_per_channel,
                         max_message_length |-> max_length]]

InitApplied ==
    /\ InitPipeline
    /\ tracked = FALSE
    /\ fwd = NoFwd
    /\ MainLive
    /\ gui = NoGui
    /\ \/ \E kws \in KeywordLists, text \in Texts :
             applied = [fn |-> "KeywordMatcher", keywords |-> kws, text |-> text,
                        built |-> FALSE, self_keywords |-> <<>>, has_match |-> <<>>,
                        summarised |-> FALSE, summary |-> NoSummary]
       \/ \E dt \in DateTimes :
             applied = [fn |-> "format_datetime", dt |-> dt, returned |-> FALSE,
                        formatted |-> ""]
       \/ \E config_data \in ConfigDatas :
             applied = [fn |-> "load_config", config_data |-> config_data,
                        returned |-> FALSE, result |-> [raised |-> "none", config |-> <<>>]]

\* KeywordMatcher(keywords): __init__ normalises the keywords and compiles
\* one pattern for each
MatcherInit ==
    /\ applied.fn = "KeywordMatcher"
    /\ ~applied.built
    /\ applied' = [applied EXCEPT !.built = TRUE,
                                  !.self_keywords = KeywordMatcher(applied.keywords)]
    /\ UNCHANGED <<now, pipeVars, taskVars, callbacks, histVars, fwd, gui>>

\* a call of has_match(text); its result is kept, call after call
MatcherHasMatch ==
    /\ applied.fn = "KeywordMatcher"
    /\ applied.built
    /\ Len(applied.has_match) < MaxHasMatchCalls
    /\ applied' = [applied EXCEPT !.has_match =
                       Append(@, has_match_in(applied.self_keywords, applied.text))]
    /\ UNCHANGED <<now, pipeVars, taskVars, callbacks, histVars, fwd, gui>>

\* a call of get_match_summary(text)
MatcherGetMatchSummary ==
    /\ applied.fn = "KeywordMatcher"
    /\ applied.built
    /\ ~applied.summarised
    /\ applied' = [applied EXCEPT !.summarised = TRUE,
                                  !.summary = get_match_summary_in(applied.self_keywords,
                                                                   applied.text)]
    /\ UNCHANGED <<now, pipeVars, taskVars, callbacks, histVars, fwd, gui>>

\* a call of format_datetime(dt)
FormatDatetime ==
    /\ applied.fn = "format_datetime"
    /\ ~applied.returned
    /\ applied' = [applied EXCEPT !.returned = TRUE, !.formatted = format_datetime(applied.dt)]
    /\ UNCHANGED <<now, pipeVars, taskVars, callbacks, histVars, fwd, gui>>

\* load_config on a file whose required fields are present: lines 79-102
ValidateLimits ==
    /\ applied.fn = "load_config"
    /\ ~applied.returned
    /\ applied' = [applied EXCEPT !.returned = TRUE, !.result = load_config(applied.config_data)]
    /\ UNCHANGED <<now, pipeVars, taskVars, callbacks, histVars, fwd, gui>>

NextApplied ==
    \/ MatcherInit /\ UNCHANGED mainVars
    \/ MatcherHasMatch /\ UNCHANGED mainVars
    \/ MatcherGetMatchSummary /\ UNCHANGED mainVars
    \/ FormatDatetime /\ UNCHANGED mainVars
    \/ ValidateLimits /\ UNCHANGED mainVars

SpecApplied == InitApplied /\ [][NextApplied]_vars

----------------------------------------------------------------------------
(* The admin UI (src/src/gui.py): the monitoring routes of TeleScoutGUI,   *)
(* each run by a request thread, and the session threads they create. A    *)
(* session thread runs one of _run_monitoring, _run_scan_only and          *)
(* _run_realtime_only and is followed from await to await.                 *)

MaxThreads == 2
MaxStopThreads == 1

\* what load_config and the checks of a start route find in the config file
GuiConfigs == {"valid", "no_channels", "raises"}

notGui == <<now, pipeVars, taskVars, callbacks, histVars, fwd, applied, mainVars>>

\* the session threads that have not ended
active_threads == {i \in 1..Len(gui.threads) : gui.threads[i].at # "ended"}

\* a start route: the status test, load_config and the checks of the
\* configuration, then the thread is created and started and the status set
start_route(target, rejected_in, status, config) ==
    /\ IF gui.monitoring_status \in rejected_in
       THEN gui' = [gui EXCEPT !.response = 400]
       ELSE IF config # "valid"
       THEN gui' = [gui EXCEPT !.response = IF config = "raises" THEN 500 ELSE 400]
       ELSE /\ Len(gui.threads) < MaxThreads
            /\ gui' = [gui EXCEPT !.threads = Append(@, [target |-> target, at |-> "created"]),
                                  !.monitoring_status = status,
                                  !.response = 200]
    /\ UNCHANGED notGui

\* POST /api/monitoring/start
api_monitoring_start(config) ==
    start_route("_start_monitoring_async", {"running"}, "starting", config)

\* POST /api/monitoring/scan
api_monitoring_scan(config) ==
    start_route("_start_scan_only_async", {"running", "scanning"}, "scanning", config)

\* POST /api/monitoring/realtime
api_monitoring_realtime(config) ==
    start_route("_start_realtime_async", {"running", "scanning"}, "running", config)

\* POST /api/monitoring/stop: with a client, the thread of stop_client is started
api_monitoring_stop ==
    /\ IF gui.monitoring_status = "stopped"
       THEN gui' = [gui EXCEPT !.response = 400]
       ELSE IF gui.client # None
       THEN /\ gui.stop_threads < MaxStopThreads
            /\ gui' = [gui EXCEPT !.monitoring_status = "stopping",
                                  !.stop_threads = @ + 1,
                                  !.response = 200]
       ELSE gui' = [gui EXCEPT !.monitoring_status = "stopped", !.response = 200]
    /\ UNCHANGED notGui

\* stop_client: asyncio.run(self.client.stop()) in a thread and an event loop
\* of its own, then the finally clause; what the disconnect does to the
\* session thread shows in that thread's next step
stop_client ==
    /\ gui.stop_threads > 0
    /\ gui' = [gui EXCEPT !.monitoring_status = "stopped",
                          !.client = None,
                          !.stop_threads = @ - 1]
    /\ UNCHANGED notGui

\* the except clause of the three _run functions, and the end of
\* _run_scan_only: stop() of the client if there is one, the status set to
\* 'stopped', the client to None
run_reset(i) ==
    [gui EXCEPT !.monitoring_status = "stopped", !.client = None, !.threads[i].at = "ended"]

\* the session thread begins: self.client = TeleScoutClient(config), then it
\* awaits client.start()
run_construct(i) ==
    /\ i <= Len(gui.threads)
    /\ gui.threads[i].at = "created"
    /\ gui' = [gui EXCEPT !.client = i, !.threads[i].at = "starting"]
    /\ UNCHANGED notGui

\* client.start() returns or raises
run_started(i, ok) ==
    /\ i <= Len(gui.threads)
    /\ gui.threads[i].at = "starting"
    /\ gui' = IF ok
              THEN [gui EXCEPT
                      !.monitoring_status =
                          IF gui.threads[i].target = "_start_scan_only_async"
                          THEN "scanning" ELSE "running",
                      !.threads[i].at =
                          IF gui.threads[i].target = "_start_realtime_async"
                          THEN "live" ELSE "scan"]
              ELSE run_reset(i)
    /\ UNCHANGED notGui

\* scan_historical_messages returns: _run_monitoring goes on to
\* start_monitoring, _run_scan_only stops the client and resets the status
scan_returned(i) ==
    /\ i <= Len(gui.threads)
    /\ gui.threads[i].at = "scan"
    /\ gui' = IF gui.threads[i].target = "_start_scan_only_async"
              THEN run_reset(i)
              ELSE [gui EXCEPT !.threads[i].at = "live"]
    /\ UNCHANGED notGui

\* start_monitoring returns because the connection is gone; the _run
\* function returns without another statement
live_returned(i) ==
    /\ i <= Len(gui.threads)
    /\ gui.threads[i].at = "live"
    /\ gui' = [gui EXCEPT !.threads[i].at = "ended"]
    /\ UNCHANGED notGui

\* an await of the scan or of the live phase raises
run_raised(i) ==
    /\ i <= Len(gui.threads)
    /\ gui.threads[i].at \in {"scan", "live"}
    /\ gui' = run_reset(i)
    /\ UNCHANGED notGui

NextGui ==
    \/ \E config \in GuiConfigs : api_monitoring_start(config)
    \/ \E config \in GuiConfigs : api_monitoring_scan(config)
    \/ \E config \in GuiConfigs : api_monitoring_realtime(config)
    \/ api_monitoring_stop
    \/ stop_client
    \/ \E i \in 1..MaxThreads : run_construct(i)
    \/ \E i \in 1..MaxThreads, ok \in BOOLEAN : run_started(i, ok)
    \/ \E i \in 1..MaxThreads : scan_returned(i)
    \/ \E i \in 1..MaxThreads : live_returned(i)
    \/ \E i \in 1..MaxThreads : run_raised(i)

SpecGui == Init /\ [][NextGui]_vars

----------------------------------------------------------------------------
(* Properties.                                                             *)

\* the part of a bag whose elements satisfy a test
BagCount(b, Test(_)) == BagCardinality([e \in {x \in DOMAIN b : Test(x)} |-> b[e]])

\* how often the forwarder has been invoked for a key in a tracked session:
\* the finished calls that reached _forward_message and those suspended in it
Invocations(key) ==
    BagCount(log, LAMBDA e : /\ dedup_id_of(e.message) = key
                             /\ e.result \in {"sent", "flood_wait", "error"})
    + Cardinality({p \in InFlight : dedup_id_of(call[p].message) = key})

SentKeys == {dedup_id_of(e.message) : e \in {x \in DOMAIN log : x.result = "sent"}}

\* the dedup set has never been compacted, so no key has been evicted
NeverCompacted == Cardinality(SentKeys) <= max_tracked_messages

\* C1: in a session whose dedup set has evicted nothing, the forwarder is
\* invoked at most once for every key (channel_id, message.id), whatever the
\* stream of deliveries, deliveries after a failed or flood-waited send included.
C1_AtMostOnceForwarding ==
    NeverCompacted => \A m \in SessionMessages : Invocations(dedup_id_of(m)) <= 1

\* C2: at every moment the successful forwards of the trailing 3600 seconds,
\* over all sources, number at most max_messages_per_hour.
C2_GlobalRateLimit ==
    BagCardinality(RecentSends(sends, now)) <= max_messages_per_hour

\* C3: at every moment the successful forwards of one source within the
\* trailing 3600 seconds number at most max_messages_per_channel_per_hour.
C3_PerSourceRateLimit ==
    \A m \in SessionMessages :
        BagCount(RecentSends(sends, now), LAMBDA e : e.peer_id = m.peer_id)
            <= max_messages_per_channel_per_hour

\* C4: two successful forwards of one source, each timed when its send
\* succeeds, lie at least forward_delay seconds apart.
C4_PerSourceSpacing ==
    \A e \in DOMAIN sends :
        /\ sends[e] = 1
        /\ \A f \in DOMAIN sends :
              (f # e /\ f.peer_id = e.peer_id) =>
                  (e.at - f.at >= forward_delay \/ f.at - e.at >= forward_delay)

\* the steps of task p that handle a flood-wait
FloodRaised(p) == pc[p] = "sending" /\ pc'[p] = "flood_sleep"
FloodSlept(p) == pc[p] = "flood_sleep" /\ pc'[p] = "idle"

\* C5: a send answered with a flood-wait of d seconds changes no pipeline
\* state: the call sleeps at least d seconds and returns False, and neither
\* the dedup set, the rate windows, last_forward_time nor the callback count
\* is changed by it.
C5_FloodWaitLeavesState ==
    [][\A p \in Tasks :
          /\ FloodRaised(p) =>
                /\ UNCHANGED <<pipeVars, callbacks, sends>>
                /\ returned'[p] = "pending"
          /\ FloodSlept(p) =>
                /\ UNCHANGED <<pipeVars, callbacks, sends>>
                /\ now >= call[p].slept_from + call[p].seconds
                /\ returned'[p] = "False"]_vars

\* a flood-wait sleep has run its time in a session that has forwarded before
C5_Witness ==
    \E p \in Tasks :
        /\ pc[p] = "flood_sleep"
        /\ call[p].seconds > 0
        /\ now >= call[p].slept_from + call[p].seconds
        /\ forwarded_messages # {}
        /\ global_messages # <<>>

\* C6: a delivery of a message whose key is in the dedup set is rejected at
\* the dedup gate: the call returns False, no send is started and no pipeline
\* state changes.
C6_DedupOnReplay ==
    [][\A p \in Tasks, m \in Messages :
          (/\ pc[p] = "idle"
           /\ dedup_id_of(m) \in forwarded_messages
           /\ Deliver(p, m)) =>
              /\ returned'[p] = "False"
              /\ UNCHANGED <<pipeVars, pc, call, callbacks, sends>>]_vars

\* a forwarded message has been delivered again and the call returned False
C6_Witness ==
    \E p \in Tasks, m \in Matching :
        /\ dedup_id_of(m) \in forwarded_messages
        /\ gate_of(m) = "duplicate"
        /\ pc[p] = "idle"
        /\ returned[p] = "False"
        /\ callbacks = 1

\* find_matches over the texts in use
text_matches == [text \in {m.text : m \in Messages} |-> find_matches(text)]

\* the timestamps of a window that lie within the trailing 3600 seconds
InHour(q) == Cardinality({i \in 1..Len(q) : q[i] >= now - HourSeconds})

AllGatesPass(m) ==
    /\ m.text # ""
    /\ text_matches[m.text] # <<>>
    /\ dedup_id_of(m) \notin forwarded_messages
    /\ InHour(global_messages) < max_messages_per_hour
    /\ InHour(channel_queue_of(channel_messages, channel_id_of(m)))
          < max_messages_per_channel_per_hour
    /\ \/ channel_id_of(m) \notin DOMAIN last_forward_time
       \/ now - last_forward_time[channel_id_of(m)] >= forward_delay

C8_GlobalCapScenario ==
    (/\ max_messages_per_hour = 3
     /\ now = 0
     /\ InFlight = {}
     /\ BagCardinality(log) = 4
     /\ Cardinality({e.message.peer_id : e \in DOMAIN log}) = 4
     /\ \A e \in DOMAIN log : e.result \notin {"flood_wait", "error"})
    => (/\ BagCount(log, LAMBDA e : e.result = "sent") = 3
        /\ BagCount(log, LAMBDA e : e.result = "rate_limited") = 1)

\* C9: the text handed to the platform send is never longer than
\* max_message_length.
C9_LengthInvariant ==
    fwd.stage = "sent" => Len(fwd.full_message) <= fwd.max_message_length

\* the body as sent: the text after the header
SentBody == SubSeq(fwd.full_message, Len(fwd.header) + 1, Len(fwd.full_message))

\* C10: a body longer than max_message_length is sent as a prefix of the
\* original followed by the truncation notice, and the whole text is at most
\* max_message_length long.
C10_Truncation ==
    (fwd.stage = "sent" /\ Len(fwd.text) > fwd.max_message_length) =>
        LET kept == Len(SentBody) - Len(TruncationNotice)
        IN /\ kept >= 0
           /\ SentBody = SubSeq(fwd.text, 1, kept) \o TruncationNotice
           /\ Len(fwd.full_message) <= fwd.max_message_length

\* C13: the dedup set never holds more than max_tracked_messages keys, however
\* many messages have been forwarded (every successful send adds its key and
\* compacts the set in the same step, before the call returns).
C13_DedupCapacity == Cardinality(forwarded_messages) <= max_tracked_messages

\* one forward more than the capacity has been made and the set was compacted
C13_Witness ==
    /\ callbacks = max_tracked_messages + 1
    /\ Cardinality(forwarded_messages) = kept_after_compaction
    /\ kept_after_compaction < max_tracked_messages

\* C14: the key of a successful send is in the dedup set when the call
\* returns True, also when adding it made the set overflow and compaction ran.
C14_CompactionKeepsNewest ==
    [][\A p \in Tasks :
          (pc[p] = "sending" /\ pc'[p] = "idle" /\ returned'[p] = "True") =>
              dedup_id_of(call[p].message) \in forwarded_messages']_vars

\* C11: every message the historical scan passes to _process_message is dated
\* at or after the cutoff (scan start minus time_window_hours); a message the
\* iterator yields from before the cutoff is passed over.
C11_CutoffRespect ==
    \A i \in 1..Len(hist_trace) : hist_trace[i].entry.date >= scan.cutoff_time

\* the scan has processed a message of a channel whose iterator had yielded a
\* message from before the cutoff
C11_Witness ==
    \E i \in 1..Len(hist_trace) :
        \E k \in 1..Len(Yielded(monitored_channels[hist_trace[i].channel])) :
            Yielded(monitored_channels[hist_trace[i].channel])[k].date < scan.cutoff_time

\* the place of an entry in what the iterator of its channel yields
position(entity, entry) ==
    CHOOSE k \in 1..Len(Yielded(entity)) : Yielded(entity)[k] = entry

ScanStates == {"scan_iter", "scan_process", "scan_sleep", "scanned"}

\* C12: the scan passes the messages of one channel in the order its iterator
\* yields them (dates non-decreasing), channel after channel in the order of
\* monitored_channels, and takes the next message only when the call for the
\* previous one has returned.
C12_HistoricalOrdering ==
    /\ \A i, j \in 1..Len(hist_trace) :
          i < j =>
             /\ hist_trace[i].channel <= hist_trace[j].channel
             /\ hist_trace[i].channel = hist_trace[j].channel =>
                   /\ position(monitored_channels[hist_trace[i].channel], hist_trace[i].entry)
                        < position(monitored_channels[hist_trace[j].channel], hist_trace[j].entry)
                   /\ hist_trace[i].entry.date <= hist_trace[j].entry.date
    /\ mpc \in ScanStates \ {"scan_process"} => InFlight = {}
    /\ mpc = "scan_process" =>
          /\ InFlight = {TaskOrder[1]}
          /\ call[TaskOrder[1]].message = hist_trace[Len(hist_trace)].entry.message

\* the scan has processed two messages of one channel and one of the next
C12_Witness ==
    /\ Len(hist_trace) >= 3
    /\ hist_trace[1].channel = hist_trace[2].channel
    /\ hist_trace[2].channel < hist_trace[3].channel
    /\ callbacks >= 2

\* C15: when stop() has completed, the dedup set and every rate window are empty.
C15_StateClearedOnStop ==
    (mpc = "exited" /\ flow.disconnect_invoked /\ flow.cancelled_in # "stopping") =>
        /\ forwarded_messages = {}
        /\ global_messages = <<>>
        /\ \A c \in DOMAIN channel_messages : channel_messages[c] = <<>>

\* the resolution loop has run to its end: the start got as far as
\* _resolve_channels and no signal ended it there or earlier
resolution_over ==
    LET before == {"loading", "validating", "authenticating", "target"}
    IN /\ mpc \notin before \cup {"resolving"}
       /\ flow.failed_in \notin before
       /\ flow.cancelled_in \notin before \cup {"resolving"}

\* the configured identifiers whose resolution succeeded so far, in order
succeeded == SelectSeq([i \in 1..Len(flow.resolutions) |-> i], LAMBDA i : flow.resolutions[i])

\* C16: monitored_channels holds exactly the entities of the identifiers that
\* resolved, in configured order; a failed identifier does not end the loop;
\* when _resolve_channels has returned normally every identifier was tried and
\* the list is non-empty, and when none resolved start() fails.
C16_SourceResolution ==
    /\ monitored_channels =
          [k \in 1..Len(succeeded) |-> entity_of(config_channels[succeeded[k]])]
    /\ mpc = "resolving" => Len(flow.resolutions) = resolve_i - 1
    /\ (resolution_over /\ mpc # "failed") =>
          /\ Len(flow.resolutions) = Len(config_channels)
          /\ monitored_channels # <<>>
    /\ resolution_over =>
          (mpc = "failed" <=>
              /\ Len(flow.resolutions) = Len(config_channels)
              /\ monitored_channels = <<>>)

\* start() has returned after a failed identifier followed by resolved ones
C16_Witness ==
    /\ mpc = "started"
    /\ flow.resolutions = <<FALSE, TRUE, TRUE>>
    /\ monitored_channels = <<42, 7>>

\* C17: a signal that arrives during live monitoring ends the live wait, and
\* client.disconnect() is invoked eventually and before main() ends.
C17_LiveCancellation ==
    /\ [](flow.cancelled_in = "live" => mpc \in {"finally", "stopping", "exited"})
    /\ []((flow.cancelled_in = "live" /\ mpc = "exited") => flow.disconnect_invoked)
    /\ (flow.cancelled_in = "live") ~> flow.disconnect_invoked

\* main() has ended after a signal in the live phase, handlers having run
C17_Witness ==
    /\ flow.cancelled_in = "live"
    /\ signal_received \in Signals
    /\ flow.live_processed
    /\ flow.disconnect_invoked
    /\ mpc = "exited"

\* C18: when the signal arrives while a send of the scan is in progress, that
\* send completes and its key is recorded before the scan stops.
C18_CancelBetweenMessages ==
    flow.cancelled_in = "send" =>
        dedup_id_of(hist_trace[Len(hist_trace)].entry.message) \in forwarded_messages

\* C19: a signal ends every flood-wait sleep in the step in which it arrives,
\* whatever remains of the sleep, and the main task goes on with its shutdown
\* (to the finally block, or out of a stop() already under way); nothing
\* sleeps once the signal has arrived.
C19_CancelAbortsFloodWait ==
    /\ [][(signal_received = "none" /\ signal_received' # "none") =>
             \A p \in Tasks :
                pc[p] = "flood_sleep" =>
                   /\ pc'[p] = "idle"
                   /\ returned'[p] = "cancelled"
                   /\ mpc' \in {"finally", "exited"}]_vars
    /\ [](signal_received # "none" => \A p \in Tasks : pc[p] # "flood_sleep")

\* the scan was cancelled in a flood-wait sleep at the instant the sleep began
\* (every flood-wait lasts longer than zero seconds), and disconnect followed
C19_Witness ==
    /\ flow.cancelled_in = "flood_sleep"
    /\ now = 0
    /\ \A seconds \in FloodSeconds : seconds > 0
    /\ flow.disconnect_invoked

C21_ExitCodes ==
    /\ flow.failed_in # "none" =>
          /\ mpc = "failed"
          /\ flow.exit_code = 1
          /\ ~flow.scan_called /\ hist_trace = <<>>
          /\ ~flow.live_installed /\ ~flow.live_processed
    /\ mpc = "failed" => flow.failed_in # "none"
    /\ (mpc = "exited" /\ args.scan_only /\ signal_received = "none") => flow.exit_code = 0
    /\ (mpc = "exited" /\ signal_received # "none") => flow.exit_code = 0

\* main() has ended because the destination was not found
C21_Witness ==
    /\ mpc = "failed"
    /\ flow.failed_in = "target"
    /\ flow.exit_code = 1
    /\ signal_received = "none"

\* C22: has_match is true only through an occurrence of a keyword that has a
\* word boundary on both sides, in any letter case; for keywords made of word
\* characters that is an occurrence with no word character around it.  "cat"
\* matches "a cat sat" and "CAT!", not "category" or "scatter"; "bot" does not
\* match "robot".
C22_WholeWordMatching ==
    (applied.fn = "KeywordMatcher" /\ applied.has_match # <<>>) =>
        LET self_keywords == applied.self_keywords
            text == applied.text
            result == applied.has_match[1]
            delimited_occurrence(kw) ==
                \E k \in 0..(Len(text) - Len(kw)) :
                    /\ lower(SubSeq(text, k + 1, k + Len(kw))) = kw
                    /\ k = 0 \/ Char(text, k) \notin WordChars
                    /\ k + Len(kw) = Len(text) \/ Char(text, k + Len(kw) + 1) \notin WordChars
            worded(kw) == /\ kw # ""
                          /\ Char(kw, 1) \in WordChars
                          /\ Char(kw, Len(kw)) \in WordChars
        IN /\ result =>
                \E i \in 1..Len(self_keywords) :
                    \E k \in 0..(Len(text) - Len(self_keywords[i])) :
                        /\ lower(SubSeq(text, k + 1, k + Len(self_keywords[i])))
                              = self_keywords[i]
                        /\ WordBoundary(text, k)
                        /\ WordBoundary(text, k + Len(self_keywords[i]))
           /\ (\A i \in 1..Len(self_keywords) : worded(self_keywords[i])) =>
                (result <=> \E i \in 1..Len(self_keywords) :
                                delimited_occurrence(self_keywords[i]))
           /\ (applied.keywords = <<"cat">> /\ text \in {"a cat sat", "CAT!"}) => result
           /\ (applied.keywords = <<"cat">> /\ text \in {"category", "scatter"}) => ~result
           /\ (applied.keywords = <<"bot">> /\ text = "robot") => ~result

\* has_match("CAT!") has returned True for the keyword "cat"
C22_Witness ==
    /\ applied.fn = "KeywordMatcher"
    /\ applied.keywords = <<"cat">>
    /\ applied.text = "CAT!"
    /\ applied.has_match = <<TRUE>>

\* C23: a keyword that is empty after lowercasing and trimming is not among
\* the keywords of the built matcher, so has_match and the match summary are
\* those of the matcher built from the other keywords.
C23_EmptyKeywordsDiscarded ==
    (applied.fn = "KeywordMatcher" /\ applied.built) =>
        LET kept == SelectSeq(KeywordMatcher(applied.keywords), LAMBDA kw : kw # "")
        IN /\ \A i \in 1..Len(applied.self_keywords) : applied.self_keywords[i] # ""
           /\ \A i \in 1..Len(applied.has_match) :
                 applied.has_match[i] = has_match_in(kept, applied.text)
           /\ applied.summarised =>
                 applied.summary = get_match_summary_in(kept, applied.text)

\* str.upper() on the ASCII letters: a keyword in another letter case
RECURSIVE upper(_)
upper(s) ==
    IF s = "" THEN ""
    ELSE (IF \E j \in 1..Len(LowerAlphabet) : Char(LowerAlphabet, j) = Char(s, 1)
          THEN Char(UpperAlphabet, CHOOSE j \in 1..Len(LowerAlphabet) :
                                      Char(LowerAlphabet, j) = Char(s, 1))
          ELSE Char(s, 1)) \o upper(Tail(s))

\* C24: every has_match call on one matcher and one text returns the same
\* result and leaves the matcher as __init__ built it, and the result is that
\* of the matcher built from the keywords in upper case with whitespace put
\* around them, and of the matcher built from the trimmed keywords.
C24_MatcherNormalisationAndPurity ==
    (applied.fn = "KeywordMatcher" /\ applied.built) =>
        LET kws == applied.keywords
            padded == [i \in 1..Len(kws) |-> " \t" \o upper(kws[i]) \o "\n "]
            trimmed == [i \in 1..Len(kws) |-> strip(kws[i])]
        IN /\ applied.self_keywords = KeywordMatcher(kws)
           /\ \A i \in 1..Len(applied.has_match) :
                 /\ applied.has_match[i] = applied.has_match[1]
                 /\ applied.has_match[i] = has_match_in(KeywordMatcher(padded), applied.text)
                 /\ applied.has_match[i] = has_match_in(KeywordMatcher(trimmed), applied.text)

\* has_match has been called twice on a matcher built from a keyword in mixed
\* case with whitespace around it, and has matched
C24_Witness ==
    /\ applied.fn = "KeywordMatcher"
    /\ applied.keywords = <<"\t Cat ">>
    /\ applied.text = "a cat sat"
    /\ applied.has_match = <<TRUE, TRUE>>

\* C25: get_match_summary returns None exactly when no keyword matches; with
\* one matching keyword it names it; with n > 1 it lists the first min(3, n)
\* in configured order, followed by the count n - 3 exactly when n > 3.
C25_MatchSummary ==
    (applied.fn = "KeywordMatcher" /\ applied.summarised) =>
        LET matching_indices ==
                {i \in 1..Len(applied.self_keywords) :
                    /\ applied.text # ""
                    /\ pattern_search(applied.self_keywords[i], applied.text)}
            n == Cardinality(matching_indices)
            nth_matching(r) ==
                applied.self_keywords[CHOOSE i \in matching_indices :
                                         Cardinality({j \in matching_indices : j < i}) = r - 1]
            quoted(r) == "'" \o nth_matching(r) \o "'"
        IN /\ applied.summary = NoSummary <=> n = 0
           /\ n = 1 => applied.summary = "Keyword matched: " \o quoted(1)
           /\ n = 2 => applied.summary = "Keywords matched: " \o quoted(1) \o ", " \o quoted(2)
           /\ n >= 3 =>
                 applied.summary =
                    "Keywords matched: " \o quoted(1) \o ", " \o quoted(2) \o ", " \o quoted(3)
                    \o (IF n > 3 THEN " (+" \o ToString(n - 3) \o " more)" ELSE "")

\* five keywords match: three are shown and two are counted
C25_Witness ==
    /\ applied.fn = "KeywordMatcher"
    /\ applied.summarised
    /\ applied.summary = "Keywords matched: 'sat', 'a', 'cat' (+2 more)"

\* C26: for every day d of 1..31 format_datetime writes d followed by "th"
\* when d is 11, 12 or 13, otherwise by "st", "nd" or "rd" when d mod 10 is 1,
\* 2 or 3, and by "th" in every other case.
C26_OrdinalDateSuffix ==
    (applied.fn = "format_datetime" /\ applied.returned) =>
        LET d == applied.dt.day
            expected == IF d \in {11, 12, 13} THEN "th"
                        ELSE IF d % 10 = 1 THEN "st"
                        ELSE IF d % 10 = 2 THEN "nd"
                        ELSE IF d % 10 = 3 THEN "rd"
                        ELSE "th"
            written == ToString(d) \o expected \o " "
        IN SubSeq(applied.formatted, 1, Len(written)) = written

\* the twelfth of a month has been formatted
C26_Witness ==
    /\ applied.fn = "format_datetime"
    /\ applied.returned
    /\ applied.dt.day = 12
    /\ applied.formatted = "12th August 2025 05:09PM"

\* C27: load_config returns a Config only with max_messages_per_hour in
\* 1..200, max_messages_per_channel_per_hour in 1..50 and max_message_length
\* in 1..10000; with a value outside its range it raises the configuration
\* error.
C27_LimitsWithinRange ==
    (applied.fn = "load_config" /\ applied.returned) =>
        LET max_per_hour == config_get(applied.config_data, "max_messages_per_hour", 60)
            max_per_channel ==
                config_get(applied.config_data, "max_messages_per_channel_per_hour", 20)
            max_length == config_get(applied.config_data, "max_message_length", 4000)
            within == /\ max_per_hour \in 1..200
                      /\ max_per_channel \in 1..50
                      /\ max_length \in 1..10000
        IN /\ applied.result.raised = "none" <=> within
           /\ applied.result.raised \in {"none", "ValueError"}

\* C28: a call of _process_message that rejects its message at a gate starts
\* no send, adds no key to the dedup set, appends no timestamp to a rate
\* window (the windows are only pruned at the front) and leaves
\* last_forward_time alone.  A message the rate limiter or the spacing gate
\* would reject is not in the dedup set after the rejection, and the gates let
\* it through once the hour and the spacing delay have passed.
C28_RejectionChangesNothing ==
    [][(now' = now /\ pc' = pc) =>
          LET pruned(q, q2) == \E k \in 0..Len(q) : q2 = SubSeq(q, k + 1, Len(q))
              later == now + HourSeconds + forward_delay
          IN /\ sends' = sends /\ callbacks' = callbacks
             /\ forwarded_messages' = forwarded_messages
             /\ last_forward_time' = last_forward_time
             /\ pruned(global_messages, global_messages')
             /\ \A c \in DOMAIN channel_messages' :
                   pruned(channel_queue_of(channel_messages, c), channel_messages'[c])
             /\ \A m \in Messages :
                   gate_of(m) \in {"rate_limited", "spacing"} =>
                      /\ dedup_id_of(m) \notin forwarded_messages'
                      /\ can_send_message(global_messages', channel_messages',
                                          channel_id_of(m), later).ok
                      /\ channel_id_of(m) \in DOMAIN last_forward_time' =>
                            later - last_forward_time'[channel_id_of(m)] >= forward_delay
    ]_vars

\* a call has just returned False for a message the spacing gate rejects, after
\* an earlier message of the same channel was forwarded
C28_Witness ==
    /\ \A p \in Tasks : pc[p] = "idle"
    /\ returned[TaskOrder[1]] = "False"
    /\ forwarded_messages = {<<41, 1000>>}
    /\ global_messages = <<0>>
    /\ now = 0
    /\ \E m \in Messages : dedup_id_of(m) = <<41, 1001>> /\ gate_of(m) = "spacing"

\* C29: when a send has succeeded and the call returns True, last_forward_time
\* of the source is the time of the call, the key of the message is in the
\* dedup set, one timestamp has been appended to the global window and one to
\* the window of the source, and the callback has been invoked once.
C29_SuccessUpdatesAllState ==
    [][\A p \in Tasks :
          (pc[p] = "sending" /\ returned'[p] = "True") =>
             LET message == call[p].message
                 channel_id == channel_id_of(message)
             IN /\ channel_id \in DOMAIN last_forward_time'
                /\ last_forward_time'[channel_id] = call[p].current_time
                /\ dedup_id_of(message) \in forwarded_messages'
                /\ global_messages' = Append(global_messages, now)
                /\ channel_queue_of(channel_messages', channel_id)
                      = Append(channel_queue_of(channel_messages, channel_id), now)
                /\ callbacks' = callbacks + 1
    ]_vars

\* C30: when the send fails with an error other than flood-wait, the call
\* returns False at once, the clock not having moved, with the dedup set, the
\* rate windows, last_forward_time and the callback count as they were; the
\* task is free again, the scan goes on with its next message and live
\* monitoring stays installed.
C30_SendErrorDropsOnlyTheMessage ==
    [][\A p \in Tasks :
          (pc[p] = "sending" /\ returned'[p] = "False") =>
             /\ pc'[p] = "idle"
             /\ now' = now
             /\ forwarded_messages' = forwarded_messages
             /\ global_messages' = global_messages
             /\ channel_messages' = channel_messages
             /\ last_forward_time' = last_forward_time
             /\ callbacks' = callbacks
             /\ scan' = scan
             /\ mpc' = IF mpc = "scan_process" THEN "scan_iter" ELSE "live"
    ]_vars

\* the first send of the scan failed and, the clock not having moved, the
\* next message of the channel has been processed and forwarded
C30_Witness ==
    /\ now = 0
    /\ Len(hist_trace) = 2
    /\ hist_trace[1].entry.message.id = 1000
    /\ hist_trace[2].entry.message.id = 1001
    /\ forwarded_messages = {<<41, 1001>>}
    /\ global_messages = <<0>>
    /\ returned[TaskOrder[1]] = "True"

\* C31: one call of _process_message attempts the send at most once: a call
\* is in the send only on coming from the gates of a new call, and a call that
\* sleeps after a flood-wait, or whose send has failed, returns without an
\* attempt in between.
C31_NoRetryInsideACall ==
    [][\A p \in Tasks :
          /\ (pc'[p] = "sending" /\ pc[p] # "sending") =>
                (pc[p] = "idle" /\ call[p] = NoCall)
          /\ pc[p] = "flood_sleep" => pc'[p] \in {"flood_sleep", "idle"}
          /\ pc[p] = "sending" => pc'[p] \in {"sending", "flood_sleep", "idle"}
          /\ (pc[p] # "idle" /\ pc'[p] = "idle") => returned'[p] \in {"True", "False"}
    ]_vars

\* the flood-wait sleep of a call is over and the call has not returned yet
C31_Witness ==
    /\ pc[TaskOrder[1]] = "flood_sleep"
    /\ now >= call[TaskOrder[1]].slept_from + call[TaskOrder[1]].seconds
    /\ callbacks = 0

\* C32: can_send_message(channel_id) is False exactly when, of the timestamps
\* no older than 3600 seconds, the global window holds max_messages_per_hour
\* or more, or the window of the channel holds
\* max_messages_per_channel_per_hour or more.
C32_RateLimiterDecision ==
    \A m \in Messages :
        LET channel_id == channel_id_of(m)
            recent(q) == Cardinality({i \in 1..Len(q) : q[i] >= now - HourSeconds})
            at_cap == \/ recent(global_messages) >= max_messages_per_hour
                      \/ recent(channel_queue_of(channel_messages, channel_id))
                            >= max_messages_per_channel_per_hour
        IN can_send_message(global_messages, channel_messages, channel_id, now).ok <=> ~at_cap

\* the global window holds an expired timestamp and as many as the cap in all,
\* and the limiter lets a message through
C32_Witness ==
    /\ now = 3605
    /\ Len(global_messages) = max_messages_per_hour
    /\ global_messages[1] = 0
    /\ can_send_message(global_messages, channel_messages, 41, now).ok

\* C33: every rate window is a non-decreasing sequence of timestamps, and a
\* window pruned at the current time holds no timestamp older than 3600
\* seconds: popping from the front leaves no expired entry behind.
C33_RateWindowInvariant ==
    LET windows == {global_messages}
                   \cup {channel_messages[c] : c \in DOMAIN channel_messages}
    IN \A q \in windows :
          /\ \A i \in 1..(Len(q) - 1) : q[i] <= q[i + 1]
          /\ LET pruned == cleanup_old_messages(q, now)
             IN /\ \A i \in 1..Len(pruned) : pruned[i] >= now - HourSeconds
                /\ \E k \in 0..Len(q) : pruned = SubSeq(q, k + 1, Len(q))

\* a window holds an expired timestamp in front of a live one
C33_Witness ==
    /\ now = 3605
    /\ 41 \in DOMAIN channel_messages
    /\ channel_messages[41] = <<0, 5>>

\* C34: a source whose peer has no channel_id has forwards of its own counted
\* against the hourly cap per source, and a message of such a source is held
\* back by the spacing gate only after a forward of that same source.
C34_SourcesWithoutChannelId ==
    LET sent_from(peer_id) ==
            [e \in {x \in DOMAIN sends : x.peer_id = peer_id} |-> sends[e]]
    IN \A m \in GroupMessages :
          /\ BagCardinality(sent_from(m.peer_id)) <= max_messages_per_channel_per_hour
          /\ gate_of(m) = "spacing" =>
                \E e \in DOMAIN sent_from(m.peer_id) : now - e.at < forward_delay

\* C39: when the historical scan ends, the reported total of processed
\* messages equals the number of messages passed to _process_message and the
\* reported total of matches equals the number of messages forwarded during
\* the scan, summed over all sources, with matched <= processed for the
\* source being scanned.
C39_ScanCountersExact ==
    /\ scan.channel_matched <= scan.channel_processed
    /\ (mpc = "scanned" /\ flow.scan_called /\ time_window_hours # None)
          => /\ scan.total_processed = Len(hist_trace)
             /\ scan.total_matched = callbacks

\* C35: during the historical scan the loop sleeps forward_delay seconds
\* after a message if and only if _process_message returned True for it, that
\* is, the message was forwarded; after a message that was rejected or whose
\* send failed the loop goes on to the next message without sleeping, and the
\* sleep, unless cancelled, lasts forward_delay seconds.
C35_HistoricalPacing ==
    [][(mpc \in {"scan_iter", "scan_process", "scan_sleep"}
            /\ signal_received' = signal_received)
        => LET h == TaskOrder[1]
               returned_true == /\ mpc = "scan_process"
                                /\ pc'[h] = "idle"
                                /\ returned'[h] = "True"
               returned_false == \/ /\ mpc = "scan_process"
                                    /\ pc'[h] = "idle"
                                    /\ returned'[h] = "False"
                                 \/ /\ mpc = "scan_iter"
                                    /\ hist_trace' # hist_trace
                                    /\ pc'[h] = "idle"
           IN /\ (mpc # "scan_sleep" /\ mpc' = "scan_sleep") <=> returned_true
              /\ returned_true => /\ callbacks' = callbacks + 1
                                  /\ scan'.slept_from = now
              /\ returned_false => /\ mpc' = "scan_iter"
                                   /\ callbacks' = callbacks
              /\ (mpc = "scan_sleep" /\ mpc' # "scan_sleep")
                    => /\ mpc' = "scan_iter"
                       /\ now >= scan.slept_from + forward_delay]_vars

\* the scan sleeps after its second message, which was forwarded, and did not
\* sleep after its first, which was not
C35_Witness ==
    /\ mpc = "scan_sleep"
    /\ Len(hist_trace) = 2
    /\ callbacks = 1
    /\ returned[TaskOrder[1]] = "True"
    /\ scan.slept_from > 0

\* C36: the new-message handler is installed only after the historical scan
\* has returned, having reached the last source; while the scan runs no
\* handler is installed and no live event is processed, and once the handler
\* is installed the scan processes nothing more.
C36_LiveFollowsHistorical ==
    /\ [](mpc \in {"loading", "validating", "authenticating", "target", "resolving",
                   "started", "scan_iter", "scan_process", "scan_sleep", "scanned"}
            => ~flow.live_installed /\ ~flow.live_processed)
    /\ [](flow.live_processed => flow.live_installed)
    /\ []((flow.live_installed /\ flow.scan_called /\ time_window_hours # None)
            => scan.channel = Len(monitored_channels))
    /\ [][flow.live_installed => hist_trace' = hist_trace /\ scan' = scan]_vars

\* a live event is being handled after a scan that went through two sources
C36_Witness ==
    /\ mpc = "live"
    /\ flow.live_processed
    /\ flow.scan_called
    /\ Len(monitored_channels) >= 2
    /\ \E i \in 1..Len(hist_trace) : hist_trace[i].channel = 2
    /\ \E p \in Tasks : pc[p] = "sending"

\* C37: once start() has succeeded, client.stop() is invoked exactly once
\* before main() ends, whether the phases end normally or by cancellation:
\* main() never ends after a successful start without the disconnect, the
\* disconnect is invoked from the finally clause only and never a second
\* time, and a main task that has reached the finally clause invokes it.
C37_DisconnectOnEveryExitPath ==
    /\ []((mpc = "exited" /\ resolution_over /\ flow.failed_in = "none")
            => flow.disconnect_invoked)
    /\ [](flow.disconnect_invoked => mpc \in {"stopping", "exited"})
    /\ [][flow'.disconnect_invoked # flow.disconnect_invoked
            => mpc = "finally" /\ ~flow.disconnect_invoked]_vars
    /\ (mpc = "finally") ~> flow.disconnect_invoked

\* main() has ended by a signal that arrived during the scan's pacing sleep,
\* after a forward, and the disconnect was invoked
C37_Witness ==
    /\ mpc = "exited"
    /\ flow.cancelled_in = "scan_sleep"
    /\ callbacks >= 1
    /\ ~flow.live_installed
    /\ flow.disconnect_invoked

\* C38: an error raised while the history of one source is iterated abandons
\* that source only: unless a signal arrives, the scan goes from a source to
\* the one after it and to no other, it ends only at the last resolved
\* source, and it ends by returning to main(), never by a failure of main().
C38_ScanErrorIsolation ==
    [][(mpc \in {"scan_iter", "scan_process", "scan_sleep"}
            /\ signal_received' = signal_received)
        => /\ mpc' \in {"scan_iter", "scan_process", "scan_sleep", "scanned"}
           /\ flow'.failed_in = "none"
           /\ scan'.channel \in {scan.channel, scan.channel + 1}
           /\ scan'.channel = scan.channel + 1
                 => mpc' = "scan_iter" /\ scan'.cursor = 0
           /\ mpc' = "scanned" => scan.channel = Len(monitored_channels)
           /\ (mpc = "scan_iter" /\ now' = now /\ scan'.cursor <= scan.cursor
                    /\ scan.cursor < Len(Yielded(scan_entity)))
                 => IF scan.channel < Len(monitored_channels)
                    THEN mpc' = "scan_iter" /\ scan'.channel = scan.channel + 1
                    ELSE mpc' = "scanned"]_vars

\* the live phase has begun after a scan of three sources that abandoned the
\* first one before its last message and went through the other two
C38_Witness ==
    /\ mpc = "live"
    /\ monitored_channels = <<41, 42, 7>>
    /\ \E i \in 1..Len(hist_trace) :
          hist_trace[i].channel = 1 /\ hist_trace[i].entry.message.id = 1000
    /\ \A i \in 1..Len(hist_trace) :
          hist_trace[i].channel = 1 => hist_trace[i].entry.message.id # 1001
    /\ \E i \in 1..Len(hist_trace) : hist_trace[i].channel = 2
    /\ \E i \in 1..Len(hist_trace) : hist_trace[i].channel = 3

\* C40: at most one session thread of the admin UI is active at any time,
\* and once every session thread has ended and no stop is pending the
\* reported status is 'stopped'.
C40_SingleSession ==
    /\ Cardinality(active_threads) <= 1
    /\ (gui.threads # <<>> /\ active_threads = {} /\ gui.stop_threads = 0)
          => gui.monitoring_status = "stopped"

====
